---- MODULE Spec2Model ----
(***************************************************************************)
(* A model of geo-stanciu/go-utils: the query rewriter (PreparedQuery,      *)
(* DbUtils.PQuery) and the row scanner (SQLScan).                           *)
(*                                                                          *)
(* Query texts are sequences of one-character strings, so that              *)
(* strings.Index, strings.Replace and Go slicing are computed the way       *)
(* the code computes them.                                                  *)
(***************************************************************************)
EXTENDS Integers, Sequences, FiniteSets, TLC

(***************************************************************************)
(* Bounds of the model.                                                     *)
(***************************************************************************)
\* Number of fragments a generated query template is built from.
MaxFrags == 3
\* Number of fragments in front of a paging clause.
MaxPre == 1
\* Width, in bits, the model gives to Go's int (two's complement).
IntBits == 3
\* How many times the idiom rewriter is applied to one PreparedQuery.
MaxPasses == 2
\* Number of columns of a result row.
MaxCols == 2
\* How many times Scan is called on one SQLScan.
MaxScans == 2
\* How many calls are made on one DbUtils connection.
MaxCalls == 2
\* How many goroutines share one SQLScan.
NumGoroutines == 2
\* The longest argument list SetArg is called on; its index goes one
\* beyond.
MaxIndex == 3
\* How many goroutines write to the AuditLog, once each.
NumWriters == 2
\* The capacity of the AuditLog queue (1024 in the code), scaled.
QueueCap == 3
\* The most entries a zip archive has.
MaxEntries == 2
\* How many calls are made on one ZipReader.
MaxZipCalls == 4

\* The workers SetLogger starts.
NumWorkers == 4

\* Mutant of ExitItems: Close sends one exit item less than there are
\* workers.
ExitItemsButOne == NumWorkers - 1

\* The exit items Close sends.
ExitItems == 4

(***************************************************************************)
(* Driver names: src/unnamed/part_001 lines 10-25.                          *)
(***************************************************************************)
Postgres == "postgres"
Oracle == "oracle"
Oci8 == "oci8"
Oracle11g == "oracle11g"
MySQL == "mysql"
SQLServer == "mssql"
Sqlite3 == "sqlite3"

(***************************************************************************)
(* The string literals of query-utils.go.                                   *)
(***************************************************************************)
sQ ==
    <<"?">>
sNow ==
    <<"n", "o", "w", "(", ")">>
sNowUTC ==
    <<"n", "o", "w", "(", ")", " ", "a", "t", " ", "t", "i", "m", "e", " ", "z", "o", "n", "e", " ", "'", "U", "T", "C", "'">>
sCurrentTimestamp ==
    <<"c", "u", "r", "r", "e", "n", "t", "_", "t", "i", "m", "e", "s", "t", "a", "m", "p">>
sCurrentTimestampUTC ==
    <<"c", "u", "r", "r", "e", "n", "t", "_", "t", "i", "m", "e", "s", "t", "a", "m", "p", " ", "a", "t", " ", "t", "i", "m", "e", " ", "z", "o", "n", "e", " ", "'", "U", "T", "C", "'">>
sDATEq ==
    <<"D", "A", "T", "E", " ", "?">>
sTIMESTAMPq ==
    <<"T", "I", "M", "E", "S", "T", "A", "M", "P", " ", "?">>
sDateq ==
    <<"d", "a", "t", "e", " ", "?">>
sTimestampq ==
    <<"t", "i", "m", "e", "s", "t", "a", "m", "p", " ", "?">>
sUtcTimestamp ==
    <<"U", "T", "C", "_", "T", "I", "M", "E", "S", "T", "A", "M", "P", "(", ")">>
sDQuote ==
    <<"\"">>
\* The backquote character, which a TLA+ string cannot hold, as one symbol.
sBackquote ==
    <<"BACKQUOTE">>
sGetutcdate ==
    <<"g", "e", "t", "u", "t", "c", "d", "a", "t", "e", "(", ")">>
sGetdate ==
    <<"g", "e", "t", "d", "a", "t", "e", "(", ")">>
sConvertDate ==
    <<"c", "o", "n", "v", "e", "r", "t", "(", "d", "a", "t", "e", ",", " ", "?", ")">>
sConvertDatetime ==
    <<"c", "o", "n", "v", "e", "r", "t", "(", "d", "a", "t", "e", "t", "i", "m", "e", ",", " ", "?", ")">>
sSysExtractUtc ==
    <<"s", "y", "s", "_", "e", "x", "t", "r", "a", "c", "t", "_", "u", "t", "c", "(", "s", "y", "s", "t", "i", "m", "e", "s", "t", "a", "m", "p", ")">>
sSystimestamp ==
    <<"s", "y", "s", "t", "i", "m", "e", "s", "t", "a", "m", "p">>
sSysdate ==
    <<"s", "y", "s", "d", "a", "t", "e">>
sToDate ==
    <<"t", "o", "_", "d", "a", "t", "e", "(", "?", ",", " ", "'", "y", "y", "y", "y", "-", "m", "m", "-", "d", "d", "'", ")">>
sToTimestamp ==
    <<"t", "o", "_", "t", "i", "m", "e", "s", "t", "a", "m", "p", "(", "?", ",", " ", "'", "y", "y", "y", "y", "-", "m", "m", "-", "d", "d", " ", "H", "H", ":", "m", "m", ":", "s", "s", "'", ")">>
sMINUS ==
    <<"M", "I", "N", "U", "S">>
sMinus ==
    <<"m", "i", "n", "u", "s">>
sEXCEPT ==
    <<"E", "X", "C", "E", "P", "T">>
sExcept ==
    <<"e", "x", "c", "e", "p", "t">>
sLIMITq ==
    <<"L", "I", "M", "I", "T", " ", "?">>
sLimitq ==
    <<"l", "i", "m", "i", "t", " ", "?">>
sOFFSETq ==
    <<"O", "F", "F", "S", "E", "T", " ", "?">>
sOffsetq ==
    <<"o", "f", "f", "s", "e", "t", " ", "?">>
sOffsetRows ==
    <<"O", "F", "F", "S", "E", "T", " ", "?", " ", "R", "O", "W", "S">>
sFetchNext ==
    <<"F", "E", "T", "C", "H", " ", "N", "E", "X", "T", " ", "?", " ", "R", "O", "W", "S", " ", "O", "N", "L", "Y">>
\* Mutant of sOffset0Fetch: the fetch clause without OFFSET 0 ROWS.
sOffset0FetchWithoutOffset == sFetchNext

sOffset0Fetch ==
    <<"O", "F", "F", "S", "E", "T", " ", "0", " ", "R", "O", "W", "S", "\n", "F", "E", "T", "C", "H", " ", "N", "E", "X", "T", " ", "?", " ", "R", "O", "W", "S", " ", "O", "N", "L", "Y">>
sSelectFrom ==
    <<"S", "E", "L", "E", "C", "T", " ", "*", " ", "F", "R", "O", "M", " ", "(", "\n">>
sRownumBetween ==
    <<")", "\n", "W", "H", "E", "R", "E", " ", "r", "o", "w", "n", "u", "m", " ", "B", "E", "T", "W", "E", "E", "N", " ", "?", " ", "A", "N", "D", " ", "?">>
sRownumBetween0 ==
    <<")", "\n", "W", "H", "E", "R", "E", " ", "r", "o", "w", "n", "u", "m", " ", "B", "E", "T", "W", "E", "E", "N", " ", "0", " ", "A", "N", "D", " ", "?">>
sRownumGe ==
    <<")", "\n", "W", "H", "E", "R", "E", " ", "r", "o", "w", "n", "u", "m", " ", ">", "=", " ", "?">>
sPagingClause ==
    <<"O", "F", "F", "S", "E", "T", " ", "?", " ", "R", "O", "W", "S", " ", "F", "E", "T", "C", "H", " ", "N", "E", "X", "T", " ", "?", " ", "R", "O", "W", "S", " ", "O", "N", "L", "Y">>

(***************************************************************************)
(* Go's string primitives on sequences of characters.  Indexes are Go's:    *)
(* 0-based, -1 for "not found".                                             *)
(***************************************************************************)
\* s has pat at the 1-based position i.
HasAt(s, i, pat) ==
    /\ i >= 1
    /\ i + Len(pat) - 1 <= Len(s)
    /\ \A j \in 1..Len(pat) : s[i + j - 1] = pat[j]

\* strings.Index(s, pat).
Index(s, pat) ==
    LET hits == {i \in 1..(Len(s) - Len(pat) + 1) : HasAt(s, i, pat)}
    IN  IF hits = {} THEN -1
        ELSE (CHOOSE i \in hits : \A k \in hits : i <= k) - 1

\* s[lo:] of Go, for 0 <= lo <= len(s).
From(s, lo) == SubSeq(s, lo + 1, Len(s))

\* s[lo:hi] of Go, for 0 <= lo <= hi <= len(s).
Slice(s, lo, hi) == SubSeq(s, lo + 1, hi)

\* Whether Go's s[lo:hi] panics with "slice bounds out of range".
SliceFails(s, lo, hi) == lo < 0 \/ hi > Len(s) \/ lo > hi

\* strings.Replace(s, old, new, -1) for a non-empty old: every
\* non-overlapping occurrence, left to right.
RECURSIVE Replace(_, _, _)
Replace(s, old, new) ==
    LET i == Index(s, old)
    IN  IF i < 0 THEN s
        ELSE Slice(s, 0, i) \o new \o Replace(From(s, i + Len(old)), old, new)

\* strings.Replace(s, old, new, 1): the first occurrence only.
ReplaceFirst(s, old, new) ==
    LET i == Index(s, old)
    IN  IF i < 0 THEN s
        ELSE Slice(s, 0, i) \o new \o From(s, i + Len(old))

\* The number of occurrences of character c in s.
Count(s, c) == Cardinality({i \in 1..Len(s) : s[i] = c})

Digit(d) ==
    CASE d = 0 -> "0" [] d = 1 -> "1" [] d = 2 -> "2" [] d = 3 -> "3"
      [] d = 4 -> "4" [] d = 5 -> "5" [] d = 6 -> "6" [] d = 7 -> "7"
      [] d = 8 -> "8" [] d = 9 -> "9"

\* fmt's %d of a positive int.
RECURSIVE Itoa(_)
Itoa(n) == IF n < 10 THEN <<Digit(n)>> ELSE Itoa(n \div 10) \o <<Digit(n % 10)>>

\* IsWhiteSpace of utils.go, on a one-character string.
IsWhiteSpace(c) == c = " " \/ c = "\t" \/ c = "\r" \/ c = "\n"

RECURSIVE TrimLeft(_)
TrimLeft(s) ==
    IF s # <<>> /\ IsWhiteSpace(Head(s)) THEN TrimLeft(Tail(s)) ELSE s

RECURSIVE TrimRight(_)
TrimRight(s) ==
    IF s # <<>> /\ IsWhiteSpace(s[Len(s)])
    THEN TrimRight(SubSeq(s, 1, Len(s) - 1)) ELSE s

\* strings.TrimSpace on the characters the templates use.
TrimSpace(s) == TrimRight(TrimLeft(s))

(***************************************************************************)
(* Argument values.  An argument is a Go int (kept to IntBits bits) or an   *)
(* opaque non-int value, named by a number.                                 *)
(***************************************************************************)
MaxInt == 2 ^ (IntBits - 1) - 1
MinInt == 0 - 2 ^ (IntBits - 1)

\* Mutant of AddInt: the sum stops at the largest and the smallest int.
AddIntSaturating(a, b) ==
    IF a + b > MaxInt THEN MaxInt
    ELSE IF a + b < MinInt THEN MinInt
    ELSE a + b

\* Go's int addition: two's complement, wrapping.
AddInt(a, b) == ((a + b - MinInt) % (2 ^ IntBits)) + MinInt

IntArg(n) == [int |-> TRUE, v |-> n]
StrArg(k) == [int |-> FALSE, v |-> k]

(***************************************************************************)
(* DbUtils.setDbType: the placeholder prefix of each dialect.               *)
(***************************************************************************)
DbTypes == {Postgres, Oci8, Oracle, Oracle11g, MySQL, SQLServer, Sqlite3}

PrefixOf(dbType) ==
    CASE dbType = Postgres -> <<"$">>
      [] dbType \in {Oci8, Oracle, Oracle11g} -> <<":">>
      [] OTHER -> <<>>

(***************************************************************************)
(* PreparedQuery.  A value of the model is                                  *)
(*   [DbType, ParamPrefix, Query, Args, panicked]                           *)
(* where panicked records that a method ended in a Go run-time panic        *)
(* (slice bounds out of range, failed type assertion).                      *)
(***************************************************************************)
NewPQ(dbType, prefix, query, args) ==
    [DbType |-> dbType, ParamPrefix |-> prefix, Query |-> query,
     Args |-> args, panicked |-> FALSE]

\* Runs step F on pq unless an earlier step has panicked.
Then(pq, F(_)) == IF pq.panicked THEN pq ELSE F(pq)

Panic(pq) == [pq EXCEPT !.panicked = TRUE]

\* The loop of minus2except / except2minus, entered with idx >= 0 the first
\* time: pos, idx and qbuf are the code's variables at the top of the loop.
RECURSIVE keywordLoop(_, _, _, _, _, _)
keywordLoop(q, kw, repl, pos, idx, qbuf) ==
    IF idx < 0
    THEN [q |-> qbuf \o From(q, pos), panicked |-> FALSE]
    ELSE LET buf1 == qbuf \o Slice(q, pos, pos + idx)
             pos1 == pos + idx + Len(kw)
             pos2 == pos1 - Len(kw) - 1
             keep == buf1 \o Slice(q, pos2 + 1, pos1)
             next(b) == keywordLoop(q, kw, repl, pos1,
                                    Index(From(q, pos1), kw), b)
         IN  IF SliceFails(q, pos1, pos1 + 1)
             THEN [q |-> q, panicked |-> TRUE]
             ELSE IF ~IsWhiteSpace(q[pos1 + 1])
             THEN next(keep)
             ELSE IF SliceFails(q, pos2, pos2 + 1)
             THEN [q |-> q, panicked |-> TRUE]
             ELSE IF ~IsWhiteSpace(q[pos2 + 1])
             THEN next(keep)
             ELSE next(buf1 \o repl)

swapKeyword(pq, kw, repl) ==
    LET idx == Index(pq.Query, kw)
    IN  IF idx < 0 THEN pq
        ELSE LET r == keywordLoop(pq.Query, kw, repl, 0, idx, <<>>)
             IN  IF r.panicked THEN Panic(pq)
                 ELSE [pq EXCEPT !.Query = r.q]

minus2except(pq, searchUppercase) ==
    IF searchUppercase THEN swapKeyword(pq, sMINUS, sEXCEPT)
    ELSE swapKeyword(pq, sMinus, sExcept)

except2minus(pq, searchUppercase) ==
    IF searchUppercase THEN swapKeyword(pq, sEXCEPT, sMINUS)
    ELSE swapKeyword(pq, sExcept, sMinus)

\* Mutant of swapLastTwo: the arguments are left in template order.
swapLastTwoForgotten(args) == args

\* append(pq.Args[:n-2], pq.Args[n-1], pq.Args[n-2]) for n >= 2.
swapLastTwo(args) ==
    LET n == Len(args)
    IN  IF n >= 2
        THEN SubSeq(args, 1, n - 2) \o <<args[n], args[n - 1]>>
        ELSE args

\* mssqlLimitAndOffset and oracle12cLimitAndOffset: the same code twice.
fetchLimitAndOffset(pq) ==
    LET q == pq.Query
        up1 == Index(q, sLIMITq)
        up2 == Index(q, sOFFSETq)
        idx1 == IF up1 < 0 THEN Index(q, sLimitq) ELSE up1
        idx2 == IF up2 < 0 THEN Index(q, sOffsetq) ELSE up2
        offsetLwCase == up2 < 0
        idx3 == idx1 + Len(sLIMITq)
        idx4 == idx2 + Len(sOFFSETq)
    IN  IF idx1 > -1
        THEN IF idx2 > -1
             THEN IF SliceFails(q, idx3, idx2)
                  THEN Panic(pq)
                  ELSE [pq EXCEPT
                          !.Query = Slice(q, 0, idx1) \o sOffsetRows
                                    \o Slice(q, idx3, idx2) \o sFetchNext
                                    \o From(q, idx4),
                          !.Args = swapLastTwo(pq.Args)]
             ELSE [pq EXCEPT
                     !.Query = Slice(q, 0, idx1) \o sOffset0Fetch
                               \o From(q, idx3)]
        ELSE IF idx2 > -1
        THEN IF offsetLwCase
             THEN [pq EXCEPT !.Query = Replace(q, sOffsetq, sOffsetRows)]
             ELSE [pq EXCEPT !.Query = Replace(q, sOFFSETq, sOffsetRows)]
        ELSE pq

mssqlLimitAndOffset(pq) == fetchLimitAndOffset(pq)

oracle12cLimitAndOffset(pq) == fetchLimitAndOffset(pq)

\* Mutant of oracle11gLimitAndOffset: the row bounds are computed without
\* first swapping the last two arguments, so from the limit instead of the
\* offset.
oracle11gLimitAndOffsetUnswapped(pq) ==
    LET q == pq.Query
        up1 == Index(q, sLIMITq)
        up2 == Index(q, sOFFSETq)
        idx1 == IF up1 < 0 THEN Index(q, sLimitq) ELSE up1
        idx2 == IF up2 < 0 THEN Index(q, sOffsetq) ELSE up2
        n == Len(pq.Args)
        a == pq.Args
    IN  IF idx1 > -1 /\ idx2 > -1 /\ n >= 2 /\ a[n - 1].int /\ a[n].int
        THEN [pq EXCEPT
                !.Query = sSelectFrom \o TrimSpace(Slice(q, 0, idx1))
                          \o sRownumBetween,
                !.Args = [a EXCEPT
                            ![n - 1] = IntArg(AddInt(a[n - 1].v, 1)),
                            ![n] = IntArg(AddInt(a[n - 1].v, a[n].v))]]
        ELSE pq

oracle11gLimitAndOffset(pq) ==
    LET q == pq.Query
        up1 == Index(q, sLIMITq)
        up2 == Index(q, sOFFSETq)
        idx1 == IF up1 < 0 THEN Index(q, sLimitq) ELSE up1
        idx2 == IF up2 < 0 THEN Index(q, sOffsetq) ELSE up2
        n == Len(pq.Args)
    IN  IF idx1 > -1
        THEN LET q1 == TrimSpace(Slice(q, 0, idx1))
             IN  IF idx2 > -1
                 THEN LET wrapped == [pq EXCEPT
                                        !.Query = sSelectFrom \o q1
                                                  \o sRownumBetween]
                          sw == swapLastTwo(pq.Args)
                      IN  IF n >= 2
                          THEN IF ~sw[n - 1].int \/ ~sw[n].int
                               THEN Panic([wrapped EXCEPT !.Args = sw])
                               ELSE [wrapped EXCEPT !.Args =
                                       [sw EXCEPT
                                          ![n - 1] = IntArg(AddInt(sw[n - 1].v, 1)),
                                          ![n] = IntArg(AddInt(sw[n - 1].v, sw[n].v))]]
                          ELSE wrapped
                 ELSE [pq EXCEPT !.Query = sSelectFrom \o q1
                                           \o sRownumBetween0]
        ELSE IF idx2 > -1
        THEN LET q1 == TrimSpace(Slice(q, 0, idx2))
                 wrapped == [pq EXCEPT !.Query = sSelectFrom \o q1
                                                 \o sRownumGe]
             IN  IF n >= 1
                 THEN IF ~pq.Args[n].int
                      THEN Panic(wrapped)
                      ELSE [wrapped EXCEPT
                              !.Args[n] = IntArg(AddInt(pq.Args[n].v, 1))]
                 ELSE wrapped
        ELSE pq

(***************************************************************************)
(* The idiom rewriters: ordered lists of strings.Replace calls, followed    *)
(* by the set-difference keyword translation and the paging rewrite.        *)
(***************************************************************************)
\* Applies the replacements <<old, new>> of rules to q, in order.
RECURSIVE replaceAll(_, _)
replaceAll(q, rules) ==
    IF rules = <<>> THEN q
    ELSE replaceAll(Replace(q, Head(rules)[1], Head(rules)[2]), Tail(rules))

postgresRules ==
    << <<sNow, sNowUTC>>,
       <<sCurrentTimestamp, sCurrentTimestampUTC>>,
       <<sDATEq, sQ>>, <<sTIMESTAMPq, sQ>>,
       <<sDateq, sQ>>, <<sTimestampq, sQ>> >>

mysqlRules ==
    << <<sNow, sUtcTimestamp>>,
       <<sCurrentTimestamp, sUtcTimestamp>>,
       <<sDATEq, sQ>>, <<sTIMESTAMPq, sQ>>,
       <<sDateq, sQ>>, <<sTimestampq, sQ>>,
       <<sDQuote, sBackquote>> >>

\* Mutant of mssqlRules: the rules of another dialect, whose replacement of
\* now() contains now() again.
mssqlRulesCopiedFromPostgres == postgresRules

mssqlRules ==
    << <<sNow, sGetutcdate>>,
       <<sGetdate, sGetutcdate>>,
       <<sCurrentTimestamp, sGetutcdate>>,
       <<sDATEq, sConvertDate>>, <<sTIMESTAMPq, sConvertDatetime>>,
       <<sDateq, sConvertDate>>, <<sTimestampq, sConvertDatetime>> >>

oracleRules ==
    << <<sNow, sSysExtractUtc>>,
       <<sSystimestamp, sSysExtractUtc>>,
       <<sSysdate, sSysExtractUtc>>,
       <<sCurrentTimestamp, sSysExtractUtc>>,
       <<sDATEq, sToDate>>, <<sTIMESTAMPq, sToTimestamp>>,
       <<sDateq, sToDate>>, <<sTimestampq, sToTimestamp>> >>

\* The substitutions and the keyword translation of a dialect, without the
\* paging rewrite.
substitutePostgres(pq) ==
    LET p == [pq EXCEPT !.Query = replaceAll(pq.Query, postgresRules)]
    IN  Then(minus2except(p, TRUE), LAMBDA x : minus2except(x, FALSE))

substituteMySQL(pq) ==
    LET p == [pq EXCEPT !.Query = replaceAll(pq.Query, mysqlRules)]
    IN  Then(minus2except(p, TRUE), LAMBDA x : minus2except(x, FALSE))

substituteMSSQL(pq) ==
    LET p == [pq EXCEPT !.Query = replaceAll(pq.Query, mssqlRules)]
    IN  Then(minus2except(p, TRUE), LAMBDA x : minus2except(x, FALSE))

substituteOracle(pq) ==
    LET p == [pq EXCEPT !.Query = replaceAll(pq.Query, oracleRules)]
    IN  Then(except2minus(p, TRUE), LAMBDA x : except2minus(x, FALSE))

modifyQuery4Postgres(pq) == substitutePostgres(pq)

modifyQuery4MySQL(pq) == substituteMySQL(pq)

modifyQuery4MSSQL(pq) == Then(substituteMSSQL(pq), mssqlLimitAndOffset)

modifyQuery4Oracle12c(pq) == Then(substituteOracle(pq), oracle12cLimitAndOffset)

modifyQuery4Oracle11g(pq) == Then(substituteOracle(pq), oracle11gLimitAndOffset)

\* The switch of Prepare: the idiom rewriter of pq's dialect.
modifyQuery(pq) ==
    CASE pq.DbType = Postgres -> modifyQuery4Postgres(pq)
      [] pq.DbType = MySQL -> modifyQuery4MySQL(pq)
      [] pq.DbType = SQLServer -> modifyQuery4MSSQL(pq)
      [] pq.DbType \in {Oracle, Oci8} -> modifyQuery4Oracle12c(pq)
      [] pq.DbType = Oracle11g -> modifyQuery4Oracle11g(pq)
      [] OTHER -> pq

\* Mutant of placeHolderLoop: the index i is not incremented.
RECURSIVE placeHolderLoopSameIndex(_, _, _, _, _, _)
placeHolderLoopSameIndex(q, prefix, i, pos, idx, qbuf) ==
    IF idx < 0 THEN qbuf \o From(q, pos)
    ELSE LET pos1 == pos + idx + 1
         IN  placeHolderLoopSameIndex(q, prefix, i, pos1,
                                      Index(From(q, pos1), sQ),
                                      qbuf \o Slice(q, pos, pos + idx)
                                           \o prefix \o Itoa(i))

\* The loop of replaceParamPlaceHolders, with the code's i, pos, idx, qbuf
\* at the top of the loop.
RECURSIVE placeHolderLoop(_, _, _, _, _, _)
placeHolderLoop(q, prefix, i, pos, idx, qbuf) ==
    IF idx < 0 THEN qbuf \o From(q, pos)
    ELSE LET pos1 == pos + idx + 1
         IN  placeHolderLoop(q, prefix, i + 1, pos1,
                             Index(From(q, pos1), sQ),
                             qbuf \o Slice(q, pos, pos + idx)
                                  \o prefix \o Itoa(i))

\* Mutant of replaceParamPlaceHolders: only the first placeholder is
\* replaced.
replaceParamPlaceHoldersOnce(pq) ==
    IF Len(pq.ParamPrefix) = 0 THEN pq
    ELSE [pq EXCEPT !.Query =
            ReplaceFirst(pq.Query, sQ, pq.ParamPrefix \o <<"1">>)]

replaceParamPlaceHolders(pq) ==
    LET idx == Index(pq.Query, sQ)
    IN  IF idx < 0 \/ Len(pq.ParamPrefix) = 0 THEN pq
        ELSE [pq EXCEPT !.Query =
                placeHolderLoop(pq.Query, pq.ParamPrefix, 1, 0, idx, <<>>)]

Prepare(pq) == Then(modifyQuery(pq), replaceParamPlaceHolders)

\* The renumbering at the end of the older DbUtils.PQuery (db-utils.go).
pqueryRenumber(q, prefix) ==
    IF Len(prefix) > 0
    THEN placeHolderLoop(q, prefix, 1, 0, Index(q, sQ), <<>>)
    ELSE q

\* PreparedQuery.SetArg(i, val) for i >= 0.  The code grows Args by n nils
\* when n < i, by one nil when n = 0, and then assigns Args[i], which
\* panics when i is still out of range.
setArgGrown(args, i) ==
    LET n == Len(args)
    IN  IF n < i THEN args \o [k \in 1..n |-> StrArg(0)]
        ELSE IF n = 0 THEN <<StrArg(0)>>
        ELSE args

\* PreparedQuery.SetArg(i, val): the PreparedQuery after the call and how
\* the call ended.  A nil Args and an empty one are the same to the code
\* (n = 0, and append treats them alike).  The panic of the index test
\* comes before any change; the panic of pq.Args[i] = val (index out of
\* range) comes after Args was grown.
setArg(p, i, val) ==
    IF i < 0
    THEN [pq |-> Panic(p), result |-> "invalid index argument"]
    ELSE LET grown == setArgGrown(p.Args, i)
         IN  IF i >= Len(grown)
             THEN [pq |-> Panic([p EXCEPT !.Args = grown]),
                   result |-> "index out of range"]
             ELSE [pq |-> [p EXCEPT !.Args = [grown EXCEPT ![i + 1] = val]],
                   result |-> "returned"]

(***************************************************************************)
(* The query templates and argument lists the model draws its inputs from.  *)
(***************************************************************************)
\* Fragments of the general templates: plain text, the placeholder, and
\* idioms of the rewriters.
Frags ==
    { <<"a">>, <<" ">>, sQ, sNow, <<"D", "A", "T", "E", " ">>, sMinus }

\* Fragments in front of a paging clause.
PreFrags ==
    { <<"?", " ">>, sLIMITq \o <<" ">>, sLimitq \o <<" ">>,
      sOFFSETq \o <<" ">> }

\* Paging clauses.
Clauses ==
    { sLIMITq \o <<" ">> \o sOFFSETq, sLimitq \o <<" ">> \o sOffsetq,
      sLIMITq, sLimitq, sOFFSETq, sOffsetq }

\* Text after a paging clause.
PostFrags == { <<>>, <<" ", "a">>, <<" ", "?">> }

\* The concatenations of at most n elements of fs.
RECURSIVE Concats(_, _)
Concats(fs, n) ==
    IF n = 0 THEN { <<>> }
    ELSE LET shorter == Concats(fs, n - 1)
         IN  shorter \cup { s \o f : s \in shorter, f \in fs }

PlainTemplates == Concats(Frags, MaxFrags)

PagingTemplates ==
    { p \o c \o t : p \in Concats(PreFrags, MaxPre), c \in Clauses,
                    t \in PostFrags }

\* The number of consecutive ? of t that end at position i.
RunLength(t, i) ==
    LET stops == {j \in 1..i : t[j] # "?"}
    IN  IF stops = {} THEN i
        ELSE i - (CHOOSE j \in stops : \A k \in stops : k <= j)

\* Position i holds a ? that is not half of a ?? (pairs are taken from the
\* left of each run of ?).
IsSingle(t, i) ==
    /\ t[i] = "?"
    /\ RunLength(t, i) % 2 = 1
    /\ (i = Len(t) \/ t[i + 1] # "?")

\* The values given to the last two arguments of a paging template.
TailInts == {0, 1, MaxInt}

\* One argument per placeholder of the template (or, reading ?? as an
\* escape, per single placeholder): opaque values, numbered by position,
\* and for a paging template ints in the last two places.
OpaqueArgs(n) == [k \in 1..n |-> StrArg(k)]

\* The number of placeholders of t that are not half of a ??.
Singles(t) == Cardinality({i \in 1..Len(t) : IsSingle(t, i)})

ArgLists(t) ==
    LET n == Count(t, "?")
    IN  IF t \in PagingTemplates /\ n >= 2
        THEN { SubSeq(OpaqueArgs(n), 1, n - 2) \o <<IntArg(x), IntArg(y)>> :
                 x \in TailInts, y \in TailInts }
        ELSE { OpaqueArgs(n), OpaqueArgs(Singles(t)) }

Inputs ==
    UNION { { <<t, a>> : a \in ArgLists(t) } :
              t \in PlainTemplates \cup PagingTemplates }

(***************************************************************************)
(* Values of the row scanner (scan-helper.go).                              *)
(*                                                                          *)
(* A text is a sequence of tokens.  The tokens of temporal text are         *)
(*   "D"   a calendar date (2020-01-02)     "D0"  the date 0000-01-01       *)
(*   "D1"  the date 0001-01-01                                              *)
(*   "t"   a clock time 03:04:00            "t0"  00:00:00                  *)
(*   "m"   the same time as 03:04           "m0"  00:00                     *)
(*   ".3"  three fraction digits, not all 0 ".0"  the digits .000           *)
(*   ".6"  six fraction digits              ".9"  nine fraction digits      *)
(*   "Z"   the zone letter Z                "+"   a zone offset +01:00      *)
(*   " "   a space                          "T"   the letter T              *)
(* and every other token is some other character.                           *)
(*                                                                          *)
(* A time.Time is a record: date ("D", "D0" or "D1"), clock ("t" or "t0"),  *)
(* frac (the number of significant fraction digits) and zone, the           *)
(* location ("UTC", "Local" or "Fixed", a fixed offset).                    *)
(***************************************************************************)
NewTime(date, clock, frac, zone) ==
    [date |-> date, clock |-> clock, frac |-> frac, zone |-> zone]

\* time.Time{}: the zero instant.
ZeroTime == NewTime("D1", "t0", 0, "UTC")

\* The column values a driver hands to rows.Scan: NULL, an integer, a
\* text or a time.Time.
Null == [kind |-> "null"]
IntVal == [kind |-> "int"]
Str(text) == [kind |-> "string", text |-> text]
TimeVal(t) == [kind |-> "time", time |-> t]

\* strings.ToLower, on the letters the model uses.
LowerOf(c) ==
    CASE c = "A" -> "a"
      [] c = "T" -> "t"
      [] c = "N" -> "n"
      [] c = "X" -> "x"
      [] OTHER -> c

ToLower(s) == [i \in 1..Len(s) |-> LowerOf(s[i])]

\* The elements of a layout of the time package, by kind.
KindOf(tok) ==
    CASE tok \in {"D", "D0", "D1"} -> "date"
      [] tok \in {"t", "t0"} -> "hms"
      [] tok \in {"m", "m0"} -> "hm"
      [] tok \in {".3", ".0"} -> "f3"
      [] tok = ".6" -> "f6"
      [] tok = ".9" -> "f9"
      [] tok \in {"Z", "+"} -> "zone"
      [] tok = " " -> "sp"
      [] OTHER -> "other"

Kinds(text) == [i \in 1..Len(text) |-> KindOf(text[i])]

IsFrac(kind) == kind \in {"f3", "f6", "f9"}

\* text without the fraction that follows its seconds, when it has one.  A
\* layout without a fraction accepts such a text (time.Parse).
DropFrac(text) ==
    LET fs == {i \in 2..Len(text) :
                 IsFrac(KindOf(text[i])) /\ KindOf(text[i - 1]) = "hms"}
    IN  IF fs = {} THEN text
        ELSE LET i == CHOOSE j \in fs : TRUE
             IN  SubSeq(text, 1, i - 1) \o SubSeq(text, i + 1, Len(text))

LayoutHasFrac(layout) == \E i \in 1..Len(layout) : IsFrac(layout[i])

\* time.ParseInLocation accepts text under layout.
Parses(text, layout) ==
    \/ Kinds(text) = layout
    \/ ~LayoutHasFrac(layout) /\ Kinds(DropFrac(text)) = layout

Has(text, tok) == \E i \in 1..Len(text) : text[i] = tok

\* The time.Time time.ParseInLocation(layout, text, loc) returns for a
\* text it accepts: the fields the text gives, the rest zero; the location
\* is UTC for Z, a fixed zone for an offset and loc without a zone.
ParsedTime(text, loc) ==
    NewTime(IF Has(text, "D") THEN "D"
            ELSE IF Has(text, "D1") THEN "D1" ELSE "D0",
            IF Has(text, "t") \/ Has(text, "m") THEN "t" ELSE "t0",
            IF Has(text, ".9") THEN 9
            ELSE IF Has(text, ".6") THEN 6
            ELSE IF Has(text, ".3") THEN 3 ELSE 0,
            IF Has(text, "Z") THEN "UTC"
            ELSE IF Has(text, "+") THEN "Fixed" ELSE loc)

\* The layouts of utils' date constants.
ISODateTimestamp == <<"date", "sp", "hms", "f3">>
ISODateTimestampZ == <<"date", "sp", "hms", "f3", "zone">>
UTCDateTimestamp == <<"UTCTimestamp">>

\* A result of String2date and parseSDate: the time and whether err is nil.
Parsed(t) == [ok |-> TRUE, time |-> t]
ParseError == [ok |-> FALSE, time |-> ZeroTime]

\* String2date(sval, format): UTCTimestamp parses ISODateTimestamp in UTC,
\* ISODateTimestamp parses in Local and the layouts of the scanner, which
\* are not date constants, parse in UTC.
String2date(sval, format) ==
    LET layout == IF format = UTCDateTimestamp THEN ISODateTimestamp
                  ELSE format
        loc == IF format = ISODateTimestamp THEN "Local" ELSE "UTC"
    IN  IF Parses(sval, layout) THEN Parsed(ParsedTime(sval, loc))
        ELSE ParseError

\* The tokens val.Format prints for the date, the clock and the zone.
DateText(t) == t.date
ClockText(t) == t.clock
MilliText(t) == IF t.frac = 0 THEN ".0" ELSE ".3"
NanoText(t) ==
    CASE t.frac = 0 -> <<>>
      [] t.frac = 3 -> <<".3">>
      [] t.frac = 6 -> <<".6">>
      [] OTHER -> <<".9">>
ZoneText(t) == IF t.zone = "UTC" THEN "Z" ELSE "+"

\* Date2string(val, ISODateTimestamp): val.Format("2006-01-02 15:04:05.000").
Date2string(val) == <<DateText(val), " ", ClockText(val), MilliText(val)>>

\* val.Format(time.RFC3339Nano), the text database/sql stores for a
\* time.Time in a string.
FormatRFC3339Nano(val) ==
    <<DateText(val), "T", ClockText(val)>> \o NanoText(val)
        \o <<ZoneText(val)>>

\* The dateformats Scan sets for sqlite.
dateformats ==
    << <<"date", "sp", "hms", "f6", "zone">>,
       <<"date", "sp", "hms", "f3", "zone">>,
       <<"date", "sp", "hms", "f3">>,
       <<"date", "sp", "hms", "zone">>,
       <<"date", "sp", "hms">>,
       <<"date", "sp", "hm">>,
       <<"date">>,
       <<"hms", "f6", "zone">>,
       <<"hms", "f3", "zone">>,
       <<"hms", "f3">>,
       <<"hms", "zone">>,
       <<"hms">>,
       <<"hm">> >>

\* Mutant of parseSDate: the error of the formats is dropped and the zero
\* time returned.
parseSDateNoError(formats, sdt) == Parsed(ZeroTime)

\* SQLScan.parseSDate: the time of the first format that parses sdt, an
\* error when none does.
parseSDate(formats, sdt) ==
    LET found == {k \in 1..Len(formats) : String2date(sdt, formats[k]).ok}
    IN  IF found = {} THEN ParseError
        ELSE String2date(sdt,
                 formats[CHOOSE k \in found : \A j \in found : k <= j])

\* NullTime.Scan(value).
NullTimeScan(value) ==
    IF value.kind = "time" THEN [Time |-> value.time, Valid |-> TRUE]
    ELSE [Time |-> ZeroTime, Valid |-> FALSE]

\* NullTime.SetValue(val).
SetValue(val) == [Time |-> val, Valid |-> TRUE]

(***************************************************************************)
(* The row scanner: SQLScan.Scan.                                           *)
(***************************************************************************)
\* The destination record: a struct with a text field tagged sql:"a", a
\* time.Time field tagged sql:"T" and a NullTime field tagged sql:"n".  A
\* value of it is the sequence of the values of its fields.
destFields ==
    << [tag |-> <<"a">>, type |-> "string"],
       [tag |-> <<"T">>, type |-> "time"],
       [tag |-> <<"n">>, type |-> "nulltime"] >>

nFields == Len(destFields)

rnumignore == <<"r", "n", "u", "m", "i", "g", "n", "o", "r", "e">>

isOracle(dbType) == dbType \in {Oci8, Oracle, Oracle11g}

isSqlite(dbType) == dbType = Sqlite3

\* Mutant of columnNamesOf: the names are lower-cased for every driver.
columnNamesLowered(dbType, cols) ==
    [i \in 1..Len(cols) |->
        IF SubSeq(cols[i], 1, 1) # <<"\"">> THEN ToLower(cols[i])
        ELSE cols[i]]

\* The column names Scan caches: those of rows.Columns(), the unquoted ones
\* lower-cased for the Oracle drivers.
columnNamesOf(dbType, cols) ==
    IF isOracle(dbType)
    THEN [i \in 1..Len(cols) |->
            IF SubSeq(cols[i], 1, 1) # <<"\"">> THEN ToLower(cols[i])
            ELSE cols[i]]
    ELSE cols

\* The field a column is bound to: the first whose tag is the column name
\* (0 when there is none).
fieldOf(colName) ==
    LET js == {j \in 1..nFields : destFields[j].tag = colName}
    IN  IF js = {} THEN 0 ELSE CHOOSE j \in js : \A k \in js : j <= k

isTemporal(type) == type \in {"time", "nulltime"}

NilPointer == [kind |-> "nil", field |-> 0, type |-> "none", putback |-> FALSE]

\* pointers[i], fieldTypes[i], altpointers[i] and the membership of i in
\* putback, for the column named colName.
pointerOf(dbType, colName) ==
    IF isOracle(dbType) /\ colName = rnumignore
    THEN [kind |-> "rnum", field |-> 0, type |-> "int", putback |-> FALSE]
    ELSE LET j == fieldOf(colName)
         IN  IF j = 0 THEN NilPointer
             ELSE IF isSqlite(dbType) /\ isTemporal(destFields[j].type)
             THEN [kind |-> "nullstring", field |-> j,
                   type |-> destFields[j].type, putback |-> TRUE]
             ELSE [kind |-> "field", field |-> j,
                   type |-> destFields[j].type, putback |-> FALSE]

\* The text database/sql stores in a string for a value that is not NULL.
asString(value) ==
    CASE value.kind = "string" -> value.text
      [] value.kind = "int" -> <<"1">>
      [] OTHER -> FormatRFC3339Nano(value.time)

NoString == [String |-> <<>>, Valid |-> FALSE]

\* What rows.Scan does with one column: whether the value converts to the
\* destination, and the value stored in a field or in the sql.NullString.
convertAssign(p, value) ==
    CASE p.kind = "nil" -> [ok |-> FALSE]
      [] p.kind = "rnum" -> [ok |-> value.kind = "int"]
      [] p.kind = "nullstring" ->
           IF value.kind = "null" THEN [ok |-> TRUE, ns |-> NoString]
           ELSE [ok |-> TRUE,
                 ns |-> [String |-> asString(value), Valid |-> TRUE]]
      [] p.type = "string" ->
           IF value.kind = "null" THEN [ok |-> FALSE]
           ELSE [ok |-> TRUE, val |-> asString(value)]
      [] p.type = "time" ->
           IF value.kind = "time" THEN [ok |-> TRUE, val |-> value.time]
           ELSE [ok |-> FALSE]
      [] OTHER -> [ok |-> TRUE, val |-> NullTimeScan(value)]

\* rows.Scan(pointers...) from column i on: the columns are converted in
\* order and the first that fails ends the call with its error.  r holds
\* the destination record, the sql.NullStrings and the error so far.
RECURSIVE rowsScanFrom(_, _, _, _)
rowsScanFrom(pointers, values, i, r) ==
    IF i > Len(pointers) THEN r
    ELSE LET c == convertAssign(pointers[i], values[i])
         IN  IF ~c.ok THEN [r EXCEPT !.err = "convert"]
             ELSE rowsScanFrom(pointers, values, i + 1,
                    CASE pointers[i].kind = "field" ->
                           [r EXCEPT !.dest[pointers[i].field] = c.val]
                      [] pointers[i].kind = "nullstring" ->
                           [r EXCEPT !.ns[i] = c.ns]
                      [] OTHER -> r)

rowsScan(pointers, values, dest) ==
    LET r == [dest |-> dest, ns |-> [i \in 1..Len(pointers) |-> NoString],
              err |-> "nil"]
    IN  IF Len(pointers) # Len(values) THEN [r EXCEPT !.err = "count"]
        ELSE rowsScanFrom(pointers, values, 1, r)

\* The sqlite loop of Scan over putback, from column i on: the text of a
\* valid sql.NullString, its first T made a space and its first Z dropped,
\* is parsed and stored in the field; an empty text is skipped and a text
\* no format parses ends the call with the error.
RECURSIVE putBackFrom(_, _, _, _)
putBackFrom(formats, pointers, i, r) ==
    IF i > Len(pointers) THEN r
    ELSE IF ~(pointers[i].putback /\ r.ns[i].Valid)
    THEN putBackFrom(formats, pointers, i + 1, r)
    ELSE LET sdt == ReplaceFirst(ReplaceFirst(r.ns[i].String,
                                              <<"T">>, <<" ">>),
                                 <<"Z">>, <<>>)
             val == parseSDate(formats, sdt)
             j == pointers[i].field
         IN  IF Len(sdt) = 0 THEN putBackFrom(formats, pointers, i + 1, r)
             ELSE IF ~val.ok THEN [r EXCEPT !.err = "parse"]
             ELSE putBackFrom(formats, pointers, i + 1,
                    IF pointers[i].type = "nulltime"
                    THEN [r EXCEPT !.dest[j] = SetValue(val.time)]
                    ELSE [r EXCEPT !.dest[j] = val.time])

\* Mutant of asUTC: the text is parsed with the format it was printed with,
\* which String2date reads in the local zone.
asLocal(val) == String2date(Date2string(val), ISODateTimestamp)

\* String2dateNoErr(Date2string(val, ISODateTimestamp), UTCDateTimestamp).
asUTC(val) == String2date(Date2string(val), UTCDateTimestamp)

\* The Oracle loop of Scan, from column i on: the wall clock of every
\* time.Time field and of every valid NullTime field bound to a column is
\* read again as UTC.  String2dateNoErr panics when the text does not
\* parse.
RECURSIVE oracleFrom(_, _, _)
oracleFrom(pointers, i, r) ==
    IF i > Len(pointers) THEN r
    ELSE LET j == pointers[i].field
         IN  CASE pointers[i].type = "time" ->
                    IF ~asUTC(r.dest[j]).ok THEN [r EXCEPT !.err = "panic"]
                    ELSE oracleFrom(pointers, i + 1,
                           [r EXCEPT !.dest[j] = asUTC(r.dest[j]).time])
               [] pointers[i].type = "nulltime" /\ r.dest[j].Valid ->
                    IF ~asUTC(r.dest[j].Time).ok
                    THEN [r EXCEPT !.err = "panic"]
                    ELSE oracleFrom(pointers, i + 1,
                           [r EXCEPT !.dest[j].Time =
                                        asUTC(r.dest[j].Time).time])
               [] OTHER -> oracleFrom(pointers, i + 1, r)

\* A cursor that is closed has no row: rows.Columns() and rows.Scan fail
\* on it.
Closed(row) == Len(row.cols) = 0

\* Mutant of cachedNames: the cache is never used, the names are read from
\* the cursor by every Scan.
cachedNamesAlwaysRead(sc, dbType, row) == columnNamesOf(dbType, row.cols)

\* Mutant of cachedNames: the cached names are lower-cased by every Scan
\* that uses them.
cachedNamesRelowered(sc, dbType, row) ==
    IF Len(sc.columnNames) = 0 THEN columnNamesOf(dbType, row.cols)
    ELSE [i \in 1..Len(sc.columnNames) |-> ToLower(sc.columnNames[i])]

\* The column names Scan works with and leaves in s.columnNames: those of
\* the cursor when the cache is empty, the cached ones otherwise.
cachedNames(sc, dbType, row) ==
    IF Len(sc.columnNames) = 0 THEN columnNamesOf(dbType, row.cols)
    ELSE sc.columnNames

\* SQLScan.Scan(u, rows, dest) for the scanner sc: the scanner, the
\* destination record and the error after the call.  With an empty cache
\* and a closed cursor rows.Columns() fails and Scan returns its error at
\* once; with cached names and a closed cursor rows.Scan fails.
scan(sc, dbType, row, dest) ==
    LET names == cachedNames(sc, dbType, row)
        formats == IF isSqlite(dbType) /\ Len(sc.dateformats) = 0
                   THEN dateformats
                   ELSE sc.dateformats
        pointers == [i \in 1..Len(names) |-> pointerOf(dbType, names[i])]
        r == IF Closed(row)
             THEN [dest |-> dest, ns |-> <<>>, err |-> "closed"]
             ELSE rowsScan(pointers, row.vals, dest)
        done == IF r.err # "nil" THEN r
                ELSE IF isSqlite(dbType)
                THEN putBackFrom(formats, pointers, 1, r)
                ELSE IF isOracle(dbType) THEN oracleFrom(pointers, 1, r)
                ELSE r
    IN  IF Len(sc.columnNames) = 0 /\ Closed(row)
        THEN [s |-> sc, dest |-> dest, err |-> "closed"]
        ELSE [s |-> [columnNames |-> names, dateformats |-> formats],
              dest |-> done.dest,
              err |-> done.err]

(***************************************************************************)
(* The inputs of the row scanner: the rows a query returns and the          *)
(* destination records the caller passes.                                   *)
(***************************************************************************)
\* Column names as the drivers report them (none is empty).
ColNames ==
    {<<"a">>, <<"A">>, <<"T">>, <<"n">>, rnumignore, <<"\"", "a", "\"">>}

\* The time.Time values the drivers return: microseconds, in UTC or in the
\* local zone.
DriverTimes == {NewTime("D", "t", 6, "UTC"), NewTime("D", "t", 6, "Local")}

\* The texts the drivers return: not temporal, an ISO 8601 timestamp, and a
\* lone Z.
DriverTexts == {<<"x">>, <<"D", "T", "t", "Z">>, <<"Z">>}

Values ==
    {Null, IntVal} \cup {Str(x) : x \in DriverTexts}
        \cup {TimeVal(t) : t \in DriverTimes}

\* The column lists of a result set: no name comes twice.
ColLists ==
    UNION {{c \in [1..n -> ColNames] :
              \A i, k \in 1..n : i # k => c[i] # c[k]} : n \in 1..MaxCols}

\* A row under the cursor: the column names and the values.
Rows ==
    UNION {[cols : {c}, vals : [1..Len(c) -> Values]] : c \in ColLists}

\* No row: the cursor is closed.
NoRow == [cols |-> <<>>, vals |-> <<>>]

\* The rows of the scans that share an SQLScan: every column holds the
\* same value.
SameValue(cols, v) == [cols |-> cols, vals |-> [i \in 1..Len(cols) |-> v]]

CacheRows == {SameValue(c, v) : c \in ColLists, v \in Values}

\* Rows of another query, whose columns are other ones.
OtherQueryRows ==
    {SameValue(<< <<"a">> >>, Str(<<"x">>)),
     SameValue(<< <<"n">>, <<"a">> >>, TimeVal(NewTime("D", "t", 6, "UTC")))}

\* Destination records: a new one and one that holds earlier values.
OldTime == NewTime("D", "t0", 0, "UTC")
ZeroDest == << <<>>, ZeroTime, [Time |-> ZeroTime, Valid |-> FALSE] >>
OldDest == << <<"o">>, OldTime, [Time |-> OldTime, Valid |-> TRUE] >>
Dests == {ZeroDest, OldDest}

\* SQLScan{}.
NewScan == [columnNames |-> <<>>, dateformats |-> <<>>]

(***************************************************************************)
(* The connection: DbUtils, setDbType and Connect2Database.                 *)
(***************************************************************************)
\* A *sql.DB: the driver it was opened with and its limit of open
\* connections (0: no limit).  NoDB is the nil pointer.
NoDB == [driver |-> "", maxOpen |-> 0]

OpenDB(driver) == [driver |-> driver, maxOpen |-> 0]

\* DB.SetMaxOpenConns(n).
SetMaxOpenConns(d, n) == [d EXCEPT !.maxOpen = n]

\* DbUtils{}.
NewDbUtils == [dbType |-> "", prefix |-> <<>>, db |-> NoDB]

\* The driver identifiers a caller passes: the supported ones, the empty
\* one, a supported one in capitals and an unsupported one.
Identifiers == DbTypes \cup {"", "POSTGRES", "db2"}

\* strings.ToLower on a driver identifier.
ToLowerName(dbType) == IF dbType = "POSTGRES" THEN Postgres ELSE dbType

\* stringInSlice(a, list).
stringInSlice(a, list) == a \in list

\* Mutant of setDbTypeOf: the fields are assigned before the identifier is
\* checked.
setDbTypeAssignFirst(v, dbType) ==
    [panicked |-> dbType = "" \/ ~stringInSlice(dbType, DbTypes),
     u |-> [v EXCEPT !.dbType = ToLowerName(dbType),
                     !.prefix = PrefixOf(ToLowerName(dbType))]]

\* DbUtils.setDbType(dbType) on the DbUtils v: whether it panicked, and v
\* after the call.
setDbTypeOf(v, dbType) ==
    IF dbType = "" \/ ~stringInSlice(dbType, DbTypes)
    THEN [panicked |-> TRUE, u |-> v]
    ELSE [panicked |-> FALSE,
          u |-> [v EXCEPT !.dbType = ToLowerName(dbType),
                          !.prefix = PrefixOf(ToLowerName(dbType))]]

\* What sql.Open and Ping make of a call of Connect2Database.
Outcomes == {"open fails", "ping fails", "connected"}

\* DbUtils.Connect2Database(db, dbType, dbURL) on the DbUtils v, when the
\* caller's *db is d: v and *db after the call and what the call returned.
connect2Database(v, d, dbType, outcome) ==
    LET r == setDbTypeOf(v, dbType)
        driver == IF dbType = Oracle11g \/ dbType = Oracle THEN Oci8
                  ELSE dbType
        opened == IF dbType = Sqlite3 THEN SetMaxOpenConns(OpenDB(driver), 1)
                  ELSE OpenDB(driver)
    IN  CASE r.panicked -> [u |-> r.u, db |-> d, result |-> "panic"]
          [] outcome = "open fails" ->
               [u |-> r.u, db |-> NoDB, result |-> "Can't connect"]
          [] outcome = "ping fails" ->
               [u |-> r.u, db |-> OpenDB(driver), result |-> "Can't ping"]
          [] OTHER ->
               [u |-> [r.u EXCEPT !.db = opened], db |-> opened,
                result |-> "nil"]

NoCall == [name |-> "", dbType |-> "", result |-> ""]

\* What Query and the iteration over its rows give RunQuery: an error of
\* Query, a first row, or no row (the iteration ended, or failed with the
\* error rows.Err() reports).  The first rows have one column.
FirstRows == {r \in Rows : Len(r.cols) = 1}

QueryResults ==
    {[queryErr |-> TRUE, found |-> FALSE, row |-> NoRow, rowsErr |-> "nil"]}
        \cup {[queryErr |-> FALSE, found |-> TRUE, row |-> r,
                rowsErr |-> "nil"] : r \in FirstRows}
        \cup {[queryErr |-> FALSE, found |-> FALSE, row |-> NoRow,
                rowsErr |-> e] : e \in {"nil", "rows"}}

\* The body of DbUtils.RunQuery and RunQueryTx for a connection of dbType,
\* the result res of the query and the destination dest: the destination
\* after the call, what Scan returned (scanErr, "none" when it was not
\* called) and what the call returns.  The error of Scan is assigned to err
\* and err is then assigned rows.Err().
runQuery(dbType, res, dest) ==
    IF res.queryErr
    THEN [dest |-> dest, scanErr |-> "none", ret |-> "query"]
    ELSE IF res.found
    THEN LET r == scan(NewScan, dbType, res.row, dest)
         IN  [dest |-> r.dest, scanErr |-> r.err,
              ret |-> IF r.err = "panic" THEN "panic"
                      ELSE IF res.rowsErr # "nil" THEN res.rowsErr
                      ELSE "nil"]
    ELSE [dest |-> dest, scanErr |-> "none",
          ret |-> IF res.rowsErr # "nil" THEN res.rowsErr ELSE "ErrNoRows"]

(***************************************************************************)
(* State.                                                                   *)
(*   u       the DbUtils value: dbType and prefix ("" until setDbType)      *)
(*   tmpl, inArgs  the template and the arguments the caller starts with    *)
(*   argv    the caller's slice of arguments as it is now; shared tells     *)
(*           that pq.Args is a slice of the same array                      *)
(*   pq2     the PreparedQuery of a second PQuery with the same template    *)
(*   pq      the PreparedQuery made from them                               *)
(*   op      the last operation on pq; passes counts idiom rewrites of pq   *)
(*   s       the SQLScan: its cached column names and date formats          *)
(*   rows    the row under the cursor; dest the destination record          *)
(*   err     what the last Scan returned; scans counts the calls of Scan    *)
(*   db      the *sql.DB of the caller that Connect2Database fills in       *)
(*   call    the last call on the connection: its name, the driver          *)
(*           identifier it was given and what it returned ("panic" when it  *)
(*           panicked); calls counts these calls                            *)
(***************************************************************************)
VARIABLES u, tmpl, inArgs, pq, op, passes, s, rows, dest, err, scans,
          db, call, calls, argv, shared, pq2,
          mu, gs,
          a, mw, wg, queue, workers, writers, main, execd,
          z, zcall, got, sa

vars ==
    <<u, tmpl, inArgs, pq, op, passes, s, rows, dest, err, scans,
      db, call, calls, argv, shared, pq2,
      mu, gs,
      a, mw, wg, queue, workers, writers, main, execd,
      z, zcall, got, sa>>

scanVars == <<s, rows, dest, err, scans>>

connVars == <<db, call, calls>>

lockVars == <<mu, gs>>

logVars == <<a, mw, wg, queue, workers, writers, main, execd>>

zipVars == <<z, zcall, got>>

argVars == <<sa>>

\* No goroutine shares the SQLScan, no AuditLog is set up and no archive
\* is open: the state of these parts in the machines that do not use them.
LockUnused == mu = 0 /\ gs = <<>>

LogUnused ==
    /\ a = <<>> /\ mw = <<>> /\ wg = 0 /\ queue = <<>>
    /\ workers = <<>> /\ writers = <<>> /\ main = <<>> /\ execd = <<>>

ZipUnused == z = <<>> /\ zcall = <<>> /\ got = <<>>

\* SetArg has not been called.
NoSetArg == [i |-> 0, val |-> StrArg(0), result |-> "none", n |-> 0]

ArgUnused == sa = NoSetArg

NoPQ == NewPQ("", <<>>, <<>>, <<>>)

InitPQ ==
    /\ u = NewDbUtils
    /\ \E in \in Inputs : tmpl = in[1] /\ inArgs = in[2]
    /\ argv = inArgs
    /\ shared = FALSE
    /\ pq2 = NoPQ
    /\ pq = NoPQ
    /\ op = "new"
    /\ passes = 0
    /\ s = NewScan
    /\ rows = NoRow
    /\ dest = ZeroDest
    /\ err = "none"
    /\ scans = 0
    /\ db = NoDB
    /\ call = NoCall
    /\ calls = 0
    /\ LockUnused /\ LogUnused /\ ZipUnused /\ ArgUnused

\* DbUtils.setDbType with a supported driver name, on a new DbUtils.
setDbType(dbType) ==
    /\ u.dbType = ""
    /\ u' = setDbTypeOf(u, dbType).u
    /\ UNCHANGED <<tmpl, inArgs, argv, shared, pq2, pq, op, passes>>
    /\ UNCHANGED connVars
    /\ UNCHANGED <<lockVars, logVars, zipVars, argVars>>

\* DbUtils.setDbType, on a connection that serves prepared queries.
Open(dbType) == setDbType(dbType) /\ UNCHANGED scanVars

\* DbUtils.PQuery(tmpl, argv...) when spread, PQuery(tmpl, argv[0], ...)
\* otherwise.  With argv... the parameter args is the caller's slice, so
\* Args of the PreparedQuery shares its array: the in-place writes of the
\* paging rewriters (append to Args[:n-2] within the capacity, Args[n-1] =
\* ...) are writes to the caller's slice.  With single arguments the
\* compiler makes a new slice.
PQuery(spread) ==
    /\ u.dbType # ""
    /\ op = "new"
    /\ pq' = Prepare(NewPQ(u.dbType, u.prefix, tmpl, argv))
    /\ op' = "PQuery"
    /\ argv' = IF spread THEN pq'.Args ELSE argv
    /\ shared' = spread
    /\ UNCHANGED <<u, tmpl, inArgs, passes, pq2>>
    /\ UNCHANGED scanVars
    /\ UNCHANGED connVars
    /\ UNCHANGED <<lockVars, logVars, zipVars, argVars>>

\* A second call of PQuery with the same template and the caller's slice
\* as it is now.  When the first PreparedQuery shares the array of the
\* slice, the writes of this call show in its Args.
PQueryAgain(spread) ==
    /\ op = "PQuery"
    /\ ~pq.panicked
    /\ pq2' = Prepare(NewPQ(u.dbType, u.prefix, tmpl, argv))
    /\ op' = "PQueryAgain"
    /\ argv' = IF spread THEN pq2'.Args ELSE argv
    /\ pq' = IF spread /\ shared THEN [pq EXCEPT !.Args = pq2'.Args] ELSE pq
    /\ UNCHANGED <<u, tmpl, inArgs, passes, shared>>
    /\ UNCHANGED scanVars
    /\ UNCHANGED connVars
    /\ UNCHANGED <<lockVars, logVars, zipVars, argVars>>

\* DbUtils.PQueryNoRewrite(tmpl, inArgs...).
PQueryNoRewrite ==
    /\ u.dbType # ""
    /\ op = "new"
    /\ pq' = NewPQ(u.dbType, u.prefix, tmpl, inArgs)
    /\ op' = "PQueryNoRewrite"
    /\ UNCHANGED <<u, tmpl, inArgs, passes, argv, shared, pq2>>
    /\ UNCHANGED scanVars
    /\ UNCHANGED connVars
    /\ UNCHANGED <<lockVars, logVars, zipVars, argVars>>

\* The substitutions and keyword translation of pq's dialect: the body of
\* modifyQuery4<dialect> up to its paging call.
substitute(p) ==
    CASE p.DbType = Postgres -> substitutePostgres(p)
      [] p.DbType = MySQL -> substituteMySQL(p)
      [] p.DbType = SQLServer -> substituteMSSQL(p)
      [] p.DbType \in {Oracle, Oci8, Oracle11g} -> substituteOracle(p)
      [] OTHER -> p

\* One application of the idiom rewriter to pq.
Substitute ==
    /\ op \in {"PQueryNoRewrite", "substitute"}
    /\ ~pq.panicked
    /\ passes < MaxPasses
    /\ pq' = substitute(pq)
    /\ op' = "substitute"
    /\ passes' = passes + 1
    /\ UNCHANGED <<u, tmpl, inArgs, argv, shared, pq2>>
    /\ UNCHANGED scanVars
    /\ UNCHANGED connVars
    /\ UNCHANGED <<lockVars, logVars, zipVars, argVars>>

NextPQ ==
    \/ \E d \in DbTypes : Open(d)
    \/ \E spread \in BOOLEAN : PQuery(spread)
    \/ \E spread \in BOOLEAN : PQueryAgain(spread)
    \/ PQueryNoRewrite
    \/ Substitute

SpecPQ == InitPQ /\ [][NextPQ]_vars

(***************************************************************************)
(* The same operations on templates made of current-instant calls.          *)
(***************************************************************************)
\* The current-instant calls the idiom rewriters look for.
InstantCalls == {sNow, sGetdate, sSysdate, sSystimestamp, sCurrentTimestamp}

\* Templates of current-instant calls and spaces, without placeholders.
InstantTemplates == Concats(InstantCalls \cup {<<" ">>}, MaxFrags)

\* Templates of set-difference keywords, with and without white space
\* next to them.
KeywordFrags ==
    { <<"a">>, <<" ">>, <<"\n">>, sMINUS, sMinus, sEXCEPT, sExcept,
      <<" ">> \o sMinus, <<" ">> \o sEXCEPT }

KeywordTemplates == Concats(KeywordFrags, MaxFrags)

\* A new DbUtils and a template of templates, without arguments.
InitTemplate(templates) ==
    /\ u = NewDbUtils
    /\ tmpl \in templates
    /\ inArgs = <<>>
    /\ argv = <<>>
    /\ shared = FALSE
    /\ pq2 = NoPQ
    /\ pq = NoPQ
    /\ op = "new"
    /\ passes = 0
    /\ s = NewScan
    /\ rows = NoRow
    /\ dest = ZeroDest
    /\ err = "none"
    /\ scans = 0
    /\ db = NoDB
    /\ call = NoCall
    /\ calls = 0
    /\ LockUnused /\ LogUnused /\ ZipUnused /\ ArgUnused

InitInstant == InitTemplate(InstantTemplates)

SpecInstant == InitInstant /\ [][NextPQ]_vars

InitKeyword == InitTemplate(KeywordTemplates)

SpecKeyword == InitKeyword /\ [][NextPQ]_vars

(***************************************************************************)
(* The row scanner as a state machine: a connection of some driver, a       *)
(* cursor on a row, a destination record and an SQLScan.                    *)
(***************************************************************************)
InitScan ==
    /\ u = NewDbUtils
    /\ tmpl = <<>>
    /\ inArgs = <<>>
    /\ argv = <<>>
    /\ shared = FALSE
    /\ pq2 = NoPQ
    /\ pq = NoPQ
    /\ op = "new"
    /\ passes = 0
    /\ s = NewScan
    /\ rows \in Rows
    /\ dest \in Dests
    /\ err = "none"
    /\ scans = 0
    /\ db = NoDB
    /\ call = NoCall
    /\ calls = 0
    /\ LockUnused /\ LogUnused /\ ZipUnused /\ ArgUnused

\* DbUtils.setDbType, on a connection that serves the scanner.
Connect(dbType) ==
    /\ setDbType(dbType)
    /\ UNCHANGED <<s, rows, dest, err, scans>>

\* SQLScan.Scan(u, rows, dest).
Scan ==
    /\ u.dbType # ""
    /\ scans < MaxScans
    /\ LET r == scan(s, u.dbType, rows, dest)
       IN  s' = r.s /\ dest' = r.dest /\ err' = r.err
    /\ scans' = scans + 1
    /\ UNCHANGED <<u, tmpl, inArgs, argv, shared, pq2, pq, op, passes, rows>>
    /\ UNCHANGED connVars
    /\ UNCHANGED <<lockVars, logVars, zipVars, argVars>>

\* SQLScan.Clear().
Clear ==
    /\ s # NewScan
    /\ s' = NewScan
    /\ UNCHANGED <<u, tmpl, inArgs, argv, shared, pq2, pq, op, passes, rows, dest, err, scans>>
    /\ UNCHANGED connVars
    /\ UNCHANGED <<lockVars, logVars, zipVars, argVars>>

NextScan ==
    \/ \E d \in DbTypes : Connect(d)
    \/ Scan
    \/ Clear

SpecScan == InitScan /\ [][NextScan]_vars

(***************************************************************************)
(* The cache of an SQLScan as a state machine: one SQLScan scans the rows   *)
(* of a result set one after the other, is cleared, and is used on the      *)
(* cursor of another query and on a closed cursor.                          *)
(***************************************************************************)
InitCache ==
    /\ u = NewDbUtils
    /\ tmpl = <<>>
    /\ inArgs = <<>>
    /\ argv = <<>>
    /\ shared = FALSE
    /\ pq2 = NoPQ
    /\ pq = NoPQ
    /\ op = "new"
    /\ passes = 0
    /\ s = NewScan
    /\ rows \in CacheRows
    /\ dest = ZeroDest
    /\ err = "none"
    /\ scans = 0
    /\ db = NoDB
    /\ call = NoCall
    /\ calls = 0
    /\ LockUnused /\ LogUnused /\ ZipUnused /\ ArgUnused

\* rows.Next(): the cursor moves to the next row of its result set.
NextRow(v) ==
    /\ u.dbType # ""
    /\ ~Closed(rows)
    /\ rows' = SameValue(rows.cols, v)
    /\ rows' # rows
    /\ UNCHANGED <<u, tmpl, inArgs, argv, shared, pq2, pq, op, passes, s, dest, err, scans>>
    /\ UNCHANGED connVars
    /\ UNCHANGED <<lockVars, logVars, zipVars, argVars>>

\* The caller goes on with the cursor of another query.
OtherQuery(r) ==
    /\ u.dbType # ""
    /\ rows' = r
    /\ rows' # rows
    /\ UNCHANGED <<u, tmpl, inArgs, argv, shared, pq2, pq, op, passes, s, dest, err, scans>>
    /\ UNCHANGED connVars
    /\ UNCHANGED <<lockVars, logVars, zipVars, argVars>>

\* rows.Close().
Close ==
    /\ u.dbType # ""
    /\ ~Closed(rows)
    /\ rows' = NoRow
    /\ UNCHANGED <<u, tmpl, inArgs, argv, shared, pq2, pq, op, passes, s, dest, err, scans>>
    /\ UNCHANGED connVars
    /\ UNCHANGED <<lockVars, logVars, zipVars, argVars>>

NextCache ==
    \/ \E d \in DbTypes : Connect(d)
    \/ Scan
    \/ Clear
    \/ \E v \in Values : NextRow(v)
    \/ \E r \in OtherQueryRows : OtherQuery(r)
    \/ Close

SpecCache == InitCache /\ [][NextCache]_vars

(***************************************************************************)
(* The connection as a state machine: a DbUtils on which Connect2Database   *)
(* is called, with any identifier and any outcome of the driver, and then   *)
(* RunQuery and RunQueryTx.                                                 *)
(***************************************************************************)
InitConn ==
    /\ u = NewDbUtils
    /\ tmpl = <<>>
    /\ inArgs = <<>>
    /\ argv = <<>>
    /\ shared = FALSE
    /\ pq2 = NoPQ
    /\ pq = NoPQ
    /\ op = "new"
    /\ passes = 0
    /\ s = NewScan
    /\ rows = NoRow
    /\ dest = ZeroDest
    /\ err = "none"
    /\ scans = 0
    /\ db = NoDB
    /\ call = NoCall
    /\ calls = 0
    /\ LockUnused /\ LogUnused /\ ZipUnused /\ ArgUnused

\* DbUtils.Connect2Database(&db, dbType, dbURL).
Connect2Database(dbType, outcome) ==
    /\ calls < MaxCalls
    /\ LET r == connect2Database(u, db, dbType, outcome)
       IN  /\ u' = r.u
           /\ db' = r.db
           /\ call' = [name |-> "Connect2Database", dbType |-> dbType,
                       result |-> r.result]
    /\ calls' = calls + 1
    /\ UNCHANGED <<tmpl, inArgs, argv, shared, pq2, pq, op, passes>>
    /\ UNCHANGED scanVars
    /\ UNCHANGED <<lockVars, logVars, zipVars, argVars>>

\* A call of RunQuery or RunQueryTx (name) whose query gives res.
RunQueryNamed(name, res) ==
    /\ calls < MaxCalls
    /\ LET r == runQuery(u.dbType, res, dest)
       IN  /\ dest' = r.dest
           /\ err' = r.scanErr
           /\ call' = [name |-> name, dbType |-> u.dbType,
                       result |-> r.ret]
    /\ rows' = res.row
    /\ calls' = calls + 1
    /\ UNCHANGED <<u, tmpl, inArgs, argv, shared, pq2, pq, op, passes, s, scans, db>>
    /\ UNCHANGED <<lockVars, logVars, zipVars, argVars>>

\* DbUtils.RunQuery(pq, dest), on a DbUtils that holds a connection.
RunQuery(res) == u.db # NoDB /\ RunQueryNamed("RunQuery", res)

\* DbUtils.RunQueryTx(tx, pq, dest), in a transaction of the connection.
RunQueryTx(res) == u.db # NoDB /\ RunQueryNamed("RunQueryTx", res)

NextConn ==
    \/ \E dbType \in Identifiers, outcome \in Outcomes :
          Connect2Database(dbType, outcome)
    \/ \E res \in QueryResults : RunQuery(res)
    \/ \E res \in QueryResults : RunQueryTx(res)

SpecConn == InitConn /\ [][NextConn]_vars

(***************************************************************************)
(* One SQLScan shared by goroutines: Scan and Clear step by step.  Each     *)
(* goroutine's call is cut where it touches the SQLScan: s.Lock(), the      *)
(* filling of the cache (scan-helper.go:39-72), the reading of the cached   *)
(* names for the destination pointers (74-114), and rows.Scan with the      *)
(* corrections up to the return, where the deferred s.Unlock() runs.        *)
(*   mu  the goroutine that holds the SQLScan's mutex (0: unlocked)         *)
(*   gs  per goroutine: pc, its position; row and dest, the arguments of    *)
(*       its call of Scan; s0, the SQLScan when it took the lock; names,    *)
(*       the column names it found in or put into the cache; ptrs, the      *)
(*       names it built its pointers from; ret, what its last call          *)
(*       returned, and s1, the SQLScan when it returned                     *)
(***************************************************************************)
Goroutines == 1..NumGoroutines

\* Mutant of canLock: Lock never waits.
canLockAlways(m) == TRUE

\* sync.RWMutex.Lock can go on: nobody holds the mutex.
canLock(m) == m = 0

NoReturn == [call |-> "none", err |-> "none", dest |-> ZeroDest]

Idle ==
    [pc |-> "idle", row |-> NoRow, dest |-> ZeroDest, s0 |-> NewScan,
     names |-> <<>>, ptrs |-> <<>>, ret |-> NoReturn, s1 |-> NewScan]

\* The rows the goroutines scan: of two queries, and a closed cursor.
SharedRows == OtherQueryRows \cup {NoRow}

\* The drivers of the goroutines' connection.
SharedDbTypes == {Postgres, Oracle, Sqlite3}

InitLock ==
    /\ \E d \in SharedDbTypes : u = setDbTypeOf(NewDbUtils, d).u
    /\ tmpl = <<>>
    /\ inArgs = <<>>
    /\ argv = <<>>
    /\ shared = FALSE
    /\ pq2 = NoPQ
    /\ pq = NoPQ
    /\ op = "new"
    /\ passes = 0
    /\ s = NewScan
    /\ rows = NoRow
    /\ dest = ZeroDest
    /\ err = "none"
    /\ scans = 0
    /\ db = NoDB
    /\ call = NoCall
    /\ calls = 0
    /\ mu = 0
    /\ gs = [g \in Goroutines |-> Idle]
    /\ LogUnused /\ ZipUnused /\ ArgUnused

LockFrame ==
    /\ UNCHANGED <<u, tmpl, inArgs, argv, shared, pq2, pq, op, passes>>
    /\ UNCHANGED <<rows, dest, err>>
    /\ UNCHANGED connVars
    /\ UNCHANGED <<logVars, zipVars, argVars>>

\* Goroutine g calls s.Scan(u, rows, dest) with its own cursor and record.
GoScan(g, r) ==
    /\ gs[g].pc = "idle"
    /\ scans < MaxScans
    /\ gs' = [gs EXCEPT ![g] = [Idle EXCEPT !.pc = "Scan:Lock", !.row = r]]
    /\ scans' = scans + 1
    /\ UNCHANGED <<s, mu>>
    /\ LockFrame

\* Goroutine g calls s.Clear().
GoClear(g) ==
    /\ gs[g].pc = "idle"
    /\ scans < MaxScans
    /\ gs' = [gs EXCEPT ![g] = [Idle EXCEPT !.pc = "Clear:Lock"]]
    /\ scans' = scans + 1
    /\ UNCHANGED <<s, mu>>
    /\ LockFrame

\* s.Lock() in Scan and in Clear.
Lock(g) ==
    /\ gs[g].pc \in {"Scan:Lock", "Clear:Lock"}
    /\ canLock(mu)
    /\ mu' = g
    /\ gs' = [gs EXCEPT ![g].pc = IF @ = "Scan:Lock" THEN "Scan:columns"
                                  ELSE "Clear:nil",
                        ![g].s0 = s]
    /\ UNCHANGED <<s, scans>>
    /\ LockFrame

\* The deferred s.Unlock(): the mutex is free when g held it.
unlock(m, g) == IF m = g THEN 0 ELSE m

\* Scan, lines 39-72: with an empty cache the names are read from the
\* cursor, and the error of rows.Columns() ends the call; then the date
\* formats are set for sqlite.
ScanColumns(g) ==
    /\ gs[g].pc = "Scan:columns"
    /\ IF Len(s.columnNames) = 0 /\ Closed(gs[g].row)
       THEN /\ gs' = [gs EXCEPT ![g].pc = "idle",
                                ![g].ret = [call |-> "Scan", err |-> "closed",
                                            dest |-> gs[g].dest],
                                ![g].s1 = s]
            /\ mu' = unlock(mu, g)
            /\ s' = s
       ELSE /\ s' = [columnNames |-> cachedNames(s, u.dbType, gs[g].row),
                     dateformats |->
                        IF isSqlite(u.dbType) /\ Len(s.dateformats) = 0
                        THEN dateformats ELSE s.dateformats]
            /\ gs' = [gs EXCEPT ![g].pc = "Scan:pointers",
                                ![g].names = s'.columnNames]
            /\ mu' = mu
    /\ UNCHANGED scans
    /\ LockFrame

\* Scan, lines 74-114: the pointers are built from s.columnNames.
ScanPointers(g) ==
    /\ gs[g].pc = "Scan:pointers"
    /\ gs' = [gs EXCEPT ![g].pc = "Scan:rows", ![g].ptrs = s.columnNames]
    /\ UNCHANGED <<s, mu, scans>>
    /\ LockFrame

\* Scan, lines 116-170: rows.Scan on the pointers, the corrections of
\* sqlite and Oracle with s.dateformats, and the return (also by a panic of
\* String2dateNoErr), on which the deferred Unlock runs.  Without names
\* there are no pointers, and rows.Scan fails on the count.
ScanRows(g) ==
    /\ gs[g].pc = "Scan:rows"
    /\ LET r == IF Len(gs[g].ptrs) = 0
                THEN [dest |-> gs[g].dest,
                      err |-> IF Closed(gs[g].row) THEN "closed" ELSE "count"]
                ELSE scan([columnNames |-> gs[g].ptrs,
                           dateformats |-> s.dateformats],
                          u.dbType, gs[g].row, gs[g].dest)
       IN  gs' = [gs EXCEPT ![g].pc = "idle",
                            ![g].ret = [call |-> "Scan", err |-> r.err,
                                        dest |-> r.dest],
                            ![g].s1 = s]
    /\ mu' = unlock(mu, g)
    /\ UNCHANGED <<s, scans>>
    /\ LockFrame

\* Clear, lines 26-29: the cache is emptied and the call returns.
ClearNil(g) ==
    /\ gs[g].pc = "Clear:nil"
    /\ s' = NewScan
    /\ gs' = [gs EXCEPT ![g].pc = "idle",
                        ![g].ret = [call |-> "Clear", err |-> "nil",
                                    dest |-> gs[g].dest],
                        ![g].s1 = s']
    /\ mu' = unlock(mu, g)
    /\ UNCHANGED scans
    /\ LockFrame

NextLock ==
    \/ \E g \in Goroutines, r \in SharedRows : GoScan(g, r)
    \/ \E g \in Goroutines : GoClear(g)
    \/ \E g \in Goroutines : Lock(g)
    \/ \E g \in Goroutines : ScanColumns(g)
    \/ \E g \in Goroutines : ScanPointers(g)
    \/ \E g \in Goroutines : ScanRows(g)
    \/ \E g \in Goroutines : ClearNil(g)

SpecLock == InitLock /\ [][NextLock]_vars

(***************************************************************************)
(* PreparedQuery.SetArg as a state machine: a PreparedQuery with some       *)
(* argument list, on which SetArg is called with any index and value.       *)
(*   sa  the last call of SetArg: its index i and value val, how it ended   *)
(*       (result), and n, the number of calls so far                        *)
(***************************************************************************)
\* The argument lists SetArg is called on: nil or empty, and lists of
\* distinct values.
SetArgLists == {OpaqueArgs(n) : n \in 0..MaxIndex}

SetArgIndexes == (0 - 1)..(MaxIndex + 1)

SetArgValues == {IntArg(0), StrArg(9)}

InitArgs ==
    /\ u = NewDbUtils
    /\ tmpl = <<>>
    /\ \E d \in {Postgres, MySQL}, args \in SetArgLists :
          /\ inArgs = args
          /\ pq = NewPQ(d, PrefixOf(d), <<>>, args)
    /\ argv = <<>>
    /\ shared = FALSE
    /\ pq2 = NoPQ
    /\ op = "new"
    /\ passes = 0
    /\ s = NewScan
    /\ rows = NoRow
    /\ dest = ZeroDest
    /\ err = "none"
    /\ scans = 0
    /\ db = NoDB
    /\ call = NoCall
    /\ calls = 0
    /\ LockUnused /\ LogUnused /\ ZipUnused
    /\ sa = NoSetArg

\* pq.SetArg(i, val), on a PreparedQuery no call has panicked on.
SetArg(i, val) ==
    /\ ~pq.panicked
    /\ sa.n < MaxCalls
    /\ LET r == setArg(pq, i, val)
       IN  /\ pq' = r.pq
           /\ sa' = [i |-> i, val |-> val, result |-> r.result,
                     n |-> sa.n + 1]
    /\ UNCHANGED <<u, tmpl, inArgs, argv, shared, pq2, op, passes>>
    /\ UNCHANGED scanVars
    /\ UNCHANGED connVars
    /\ UNCHANGED <<lockVars, logVars, zipVars>>

NextArgs == \E i \in SetArgIndexes, val \in SetArgValues : SetArg(i, val)

SpecArgs == InitArgs /\ [][NextArgs]_vars

(***************************************************************************)
(* The AuditLog (log-utils.go) as a state machine.  The main goroutine      *)
(* sets the logger up as the Readme does (SetLogger, SetWaitGroup, then     *)
(* io.MultiWriter(os.Stdout, audit), which stores a copy of the AuditLog    *)
(* value), later calls Close, and may call Close again; writer goroutines   *)
(* call Write, through the MultiWriter's copy or on the AuditLog itself;    *)
(* the workers run processQueue.                                            *)
(*   a        the AuditLog: started (SetLogger has made the queue),         *)
(*            exitSignal, and wg, whether a.wg is set                       *)
(*   mw       the AuditLog value io.MultiWriter holds (made: it exists)     *)
(*   wg       the counter of the WaitGroup                                  *)
(*   queue    the items in the channel a.queue, oldest first                *)
(*   workers  per worker: pc, and li, the item it has received              *)
(*   writers  per writer: pc; via, the value Write is called on; r, the     *)
(*            receiver of the call (Write has a value receiver: a copy      *)
(*            made when the call starts); ret, what the call returned;      *)
(*            late, whether the call began after Close had returned, and    *)
(*            early, whether its item was enqueued before Close was called  *)
(*   main     the main goroutine: pc, and sent, the exit items it has       *)
(*            enqueued, closes, its calls of Close                          *)
(*   execd    per writer, how often its message was handed to Exec          *)
(***************************************************************************)
Workers == 1..NumWorkers

Writers == 1..NumWriters

\* logItem{exitSignal: true, msg: "exit"} and the item of writer w.
ExitItem == [exitSignal |-> TRUE, msg |-> 0]

LogItem(w) == [exitSignal |-> FALSE, msg |-> w]

NoItem == [exitSignal |-> FALSE, msg |-> 0]

\* AuditLog{}.
NewAuditLog == [started |-> FALSE, exitSignal |-> FALSE, wg |-> FALSE]

NoWriter == [made |-> FALSE, exitSignal |-> FALSE, wg |-> FALSE]

IdleWriter ==
    [pc |-> "idle", via |-> "none", r |-> NoWriter, ret |-> "none",
     late |-> FALSE, early |-> FALSE]

\* A send on the channel can go on: the buffer is not full.
canSend(q) == Len(q) < QueueCap

InitLog ==
    /\ u = NewDbUtils
    /\ tmpl = <<>>
    /\ inArgs = <<>>
    /\ argv = <<>>
    /\ shared = FALSE
    /\ pq2 = NoPQ
    /\ pq = NoPQ
    /\ op = "new"
    /\ passes = 0
    /\ s = NewScan
    /\ rows = NoRow
    /\ dest = ZeroDest
    /\ err = "none"
    /\ scans = 0
    /\ db = NoDB
    /\ call = NoCall
    /\ calls = 0
    /\ LockUnused /\ ZipUnused /\ ArgUnused
    /\ a = NewAuditLog
    /\ mw = NoWriter
    /\ wg = 0
    /\ queue = <<>>
    /\ workers = [k \in Workers |-> [pc |-> "none", li |-> NoItem]]
    /\ writers = [w \in Writers |-> IdleWriter]
    /\ main = [pc |-> "new", sent |-> 0, closes |-> 0]
    /\ execd = [w \in Writers |-> 0]

LogFrame ==
    /\ UNCHANGED <<u, tmpl, inArgs, argv, shared, pq2, pq, op, passes>>
    /\ UNCHANGED scanVars
    /\ UNCHANGED connVars
    /\ UNCHANGED <<lockVars, zipVars, argVars>>

\* audit.SetLogger(source, version, log, dbutl): the queue is made and the
\* four workers are started.
SetLogger ==
    /\ main.pc = "new"
    /\ a' = [a EXCEPT !.started = TRUE]
    /\ queue' = <<>>
    /\ workers' = [k \in Workers |-> [pc |-> "recv", li |-> NoItem]]
    /\ main' = [main EXCEPT !.pc = "SetLogger"]
    /\ UNCHANGED <<mw, wg, writers, execd>>
    /\ LogFrame

\* audit.SetWaitGroup(&wg).
SetWaitGroup ==
    /\ main.pc = "SetLogger"
    /\ a' = [a EXCEPT !.wg = TRUE]
    /\ main' = [main EXCEPT !.pc = "SetWaitGroup"]
    /\ UNCHANGED <<mw, wg, queue, workers, writers, execd>>
    /\ LogFrame

\* mw := io.MultiWriter(os.Stdout, audit): audit is an AuditLog value, so
\* the writer holds a copy of it as it is now.
MultiWriter ==
    /\ main.pc = "SetWaitGroup"
    /\ mw' = [made |-> TRUE, exitSignal |-> a.exitSignal, wg |-> a.wg]
    /\ main' = [main EXCEPT !.pc = "running"]
    /\ UNCHANGED <<a, wg, queue, workers, writers, execd>>
    /\ LogFrame

\* Close, lines 50-54: a call that finds exitSignal set returns at once;
\* otherwise exitSignal is set and the exit items are to be sent.
CloseCall ==
    /\ main.pc \in {"running", "closed"}
    /\ main.closes < MaxCalls
    /\ IF a.exitSignal
       THEN /\ main' = [main EXCEPT !.pc = "closed", !.closes = @ + 1]
            /\ a' = a
       ELSE /\ main' = [main EXCEPT !.pc = "Close:send", !.closes = @ + 1]
            /\ a' = [a EXCEPT !.exitSignal = TRUE]
    /\ UNCHANGED <<mw, wg, queue, workers, writers, execd>>
    /\ LogFrame

\* Close, lines 62-65: a.queue <- li, once per worker; after the last one
\* Close returns.
CloseSend ==
    /\ main.pc = "Close:send"
    /\ canSend(queue)
    /\ queue' = Append(queue, ExitItem)
    /\ main' = [main EXCEPT !.sent = @ + 1,
                            !.pc = IF main.sent + 1 = ExitItems
                                   THEN "closed" ELSE @]
    /\ UNCHANGED <<a, mw, wg, workers, writers, execd>>
    /\ LogFrame

\* A call of Write begins, on the MultiWriter's value (via "mw") or on the
\* AuditLog itself (via "audit"): the receiver is a copy of that value.
\* Lines 103-109: with the receiver's exitSignal set the call returns
\* (0, error); otherwise a.wg.Add(1) when the receiver has a WaitGroup.
WriteCall(w, via) ==
    /\ main.pc \in {"running", "Close:send", "closed"}
    /\ writers[w].pc = "idle"
    /\ LET r == IF via = "mw" THEN mw
                ELSE [made |-> TRUE, exitSignal |-> a.exitSignal, wg |-> a.wg]
       IN  /\ writers' =
                 [writers EXCEPT ![w] =
                    [pc |-> IF r.exitSignal THEN "returned" ELSE "send",
                     via |-> via,
                     r |-> r,
                     ret |-> IF r.exitSignal
                             THEN "exit signal already received" ELSE "none",
                     late |-> main.pc = "closed",
                     early |-> FALSE]]
           /\ wg' = IF ~r.exitSignal /\ r.wg THEN wg + 1 ELSE wg
    /\ UNCHANGED <<a, mw, queue, workers, main, execd>>
    /\ LogFrame

\* Write, lines 116-118: a.queue <- li and return (len(p), nil).
WriteSend(w) ==
    /\ writers[w].pc = "send"
    /\ canSend(queue)
    /\ queue' = Append(queue, LogItem(w))
    /\ writers' = [writers EXCEPT ![w].pc = "returned", ![w].ret = "ok",
                                  ![w].early = main.pc = "running"]
    /\ UNCHANGED <<a, mw, wg, workers, main, execd>>
    /\ LogFrame

\* processQueue, lines 70-74: li := <-a.queue; an exit item ends the
\* worker.
Receive(k) ==
    /\ workers[k].pc = "recv"
    /\ Len(queue) > 0
    /\ queue' = Tail(queue)
    /\ workers' = [workers EXCEPT ![k] =
                     [pc |-> IF Head(queue).exitSignal THEN "exited"
                             ELSE "Exec",
                      li |-> Head(queue)]]
    /\ UNCHANGED <<a, mw, wg, writers, main, execd>>
    /\ LogFrame

\* processQueue, lines 76-98: the item is handed to Exec (whose error is
\* printed only), then a.wg.Done() when the AuditLog has a WaitGroup, and
\* back to the top of the loop.
Exec(k) ==
    /\ workers[k].pc = "Exec"
    /\ execd' = [execd EXCEPT ![workers[k].li.msg] = @ + 1]
    /\ wg' = IF a.wg THEN wg - 1 ELSE wg
    /\ workers' = [workers EXCEPT ![k] = [pc |-> "recv", li |-> NoItem]]
    /\ UNCHANGED <<a, mw, queue, writers, main>>
    /\ LogFrame

WorkerStep(k) == Receive(k) \/ Exec(k)

WriterStep(w) == WriteSend(w)

NextLog ==
    \/ SetLogger
    \/ SetWaitGroup
    \/ MultiWriter
    \/ CloseCall
    \/ CloseSend
    \/ \E w \in Writers, via \in {"mw", "audit"} : WriteCall(w, via)
    \/ \E w \in Writers : WriteSend(w)
    \/ \E k \in Workers : Receive(k)
    \/ \E k \in Workers : Exec(k)

SpecLog == InitLog /\ [][NextLog]_vars

\* A step of a goroutine that is inside a call: of a worker, of a writer
\* inside Write or of the main goroutine inside Close.
Progress ==
    \/ \E k \in Workers : WorkerStep(k)
    \/ \E w \in Writers : WriterStep(w)
    \/ CloseSend

\* The scheduler does not stop while a goroutine can take a step.  That a
\* Write or Close is called at all is the program's choice.
SpecLogFair == SpecLog /\ WF_vars(Progress)

(***************************************************************************)
(* The ZipReader (utils.go) as a state machine.  A reader is made from an  *)
(* archive and its methods are called one after another in any order;      *)
(* every method holds the reader's lock from its first statement to its    *)
(* return, so a call is one step.                                          *)
(*   z      the ZipReader: r.File as the sequence r, nrEntries, entries,   *)
(*          currentEntry                                                   *)
(*   zcall  the last call: its method (op), the name passed to GetEntry,   *)
(*          the error and the value returned, what was written to dest,    *)
(*          the cursor before the call, and n, the number of calls so far  *)
(*   got    the names GetNextEntry returned since the reader was made or   *)
(*          ResetEntryIndex was last called                                *)
(* Go counts the files from 0: File(zr, i) is r.File[i].                   *)
(***************************************************************************)
ErrinvalidEntry == "invalid entry index"

ErrEOF == "no more entries"

ErrEntryNotFound == "entry name not found"

\* The error f.Open() returns for a file that cannot be opened, and the one
\* io.Copy returns for a file whose content cannot be read to the end.
ErrOpen == "open error"

ErrCopy == "copy error"

EntryNames == {"a.txt", "b.txt"}

\* A name no entry has.
NoSuchName == "c.txt"

\* A file of an archive: its name, its content as a sequence of blocks, and
\* whether Open or the copy fails on it.
ZipFiles ==
    {[Name |-> nm, content |-> <<nm, "end">>, fault |-> ft] :
        nm \in EntryNames, ft \in {"none", "open", "copy"}}

RECURSIVE ArchivesOf(_)
ArchivesOf(n) ==
    IF n = 0
    THEN {<<>>}
    ELSE {Append(fs, f) : fs \in ArchivesOf(n - 1), f \in ZipFiles}

\* The archives a reader is made from: none to MaxEntries files, names
\* repeated or not.
Archives == UNION {ArchivesOf(n) : n \in 0..MaxEntries}

File(zr, i) == zr.r[i + 1]

NewZipReader(files) ==
    [r |-> files,
     currentEntry |-> 0 - 1,
     nrEntries |-> Len(files),
     entries |-> [i \in 1..Len(files) |-> files[i].Name]]

\* z.readAtIndex(i, dest): the error returned and what was written to dest.
\* A copy that fails has written the blocks before the failure.
readAtIndex(zr, i) ==
    IF i < 0
    THEN [err |-> ErrinvalidEntry, dest |-> <<>>]
    ELSE IF i > zr.nrEntries - 1
    THEN [err |-> ErrEOF, dest |-> <<>>]
    ELSE LET f == File(zr, i)
         IN  IF f.fault = "open"
             THEN [err |-> ErrOpen, dest |-> <<>>]
             ELSE IF f.fault = "copy"
             THEN [err |-> ErrCopy,
                   dest |-> SubSeq(f.content, 1, Len(f.content) - 1)]
             ELSE [err |-> "nil", dest |-> f.content]

\* The loop of GetEntry from file i on, w being what was written to dest
\* so far: a read error is returned at once, and nothing else returns
\* inside the loop.
RECURSIVE getEntryFrom(_, _, _, _)
getEntryFrom(zr, name, i, w) ==
    IF i > Len(zr.r) - 1
    THEN [err |-> ErrEntryNotFound, dest |-> w]
    ELSE IF name = File(zr, i).Name
    THEN LET rd == readAtIndex(zr, i)
         IN  IF rd.err # "nil"
             THEN [err |-> rd.err, dest |-> w \o rd.dest]
             ELSE getEntryFrom(zr, name, i + 1, w \o rd.dest)
    ELSE getEntryFrom(zr, name, i + 1, w)

getEntry(zr, name) == getEntryFrom(zr, name, 0, <<>>)

\* Mutant of getNextEntry: the cursor is stopped one entry too late, and
\* the read of r.File beyond its end panics.
getNextEntryPastEnd(zr) ==
    IF zr.currentEntry > zr.nrEntries - 1
    THEN [z |-> zr, ret |-> "", err |-> ErrEOF]
    ELSE LET zn == [zr EXCEPT !.currentEntry = zr.currentEntry + 1]
         IN  IF zn.currentEntry > Len(zn.r) - 1
             THEN [z |-> zn, ret |-> "", err |-> "index out of range"]
             ELSE [z |-> zn, ret |-> File(zn, zn.currentEntry).Name,
                   err |-> "nil"]

\* z.GetNextEntry(): the reader after the call, the name and the error.
getNextEntry(zr) ==
    IF zr.currentEntry >= zr.nrEntries - 1
    THEN [z |-> zr, ret |-> "", err |-> ErrEOF]
    ELSE LET zn == [zr EXCEPT !.currentEntry = zr.currentEntry + 1]
         IN  [z |-> zn, ret |-> File(zn, zn.currentEntry).Name,
              err |-> "nil"]

\* z.HasNextEntry().
hasNextEntry(zr) ==
    IF zr.currentEntry >= zr.nrEntries - 1 THEN FALSE ELSE TRUE

NoZipCall ==
    [op |-> "NewZipReader", name |-> "", err |-> "nil", ret |-> "",
     dest |-> <<>>, before |-> 0 - 1, n |-> 0]

InitZip ==
    /\ u = NewDbUtils
    /\ tmpl = <<>>
    /\ inArgs = <<>>
    /\ argv = <<>>
    /\ shared = FALSE
    /\ pq2 = NoPQ
    /\ pq = NoPQ
    /\ op = "new"
    /\ passes = 0
    /\ s = NewScan
    /\ rows = NoRow
    /\ dest = ZeroDest
    /\ err = "none"
    /\ scans = 0
    /\ db = NoDB
    /\ call = NoCall
    /\ calls = 0
    /\ LockUnused /\ LogUnused /\ ArgUnused
    /\ \E files \in Archives : z = NewZipReader(files)
    /\ zcall = NoZipCall
    /\ got = <<>>

ZipFrame ==
    /\ UNCHANGED <<u, tmpl, inArgs, argv, shared, pq2, pq, op, passes>>
    /\ UNCHANGED scanVars
    /\ UNCHANGED connVars
    /\ UNCHANGED <<lockVars, logVars, argVars>>

\* The record of a call: its method, the name passed, what it returned and
\* wrote, and the cursor it found.
ZipCall(o, name, e, ret, d) ==
    [op |-> o, name |-> name, err |-> e, ret |-> ret, dest |-> d,
     before |-> z.currentEntry, n |-> zcall.n + 1]

\* z.GetEntry(name, dest).
GetEntry(name) ==
    /\ zcall.n < MaxZipCalls
    /\ LET r == getEntry(z, name)
       IN  zcall' = ZipCall("GetEntry", name, r.err, "", r.dest)
    /\ UNCHANGED <<z, got>>
    /\ ZipFrame

\* z.ReadCurrentEntry(dest).
ReadCurrentEntry ==
    /\ zcall.n < MaxZipCalls
    /\ LET r == readAtIndex(z, z.currentEntry)
       IN  zcall' = ZipCall("ReadCurrentEntry", "", r.err, "", r.dest)
    /\ UNCHANGED <<z, got>>
    /\ ZipFrame

\* z.HasNextEntry().
HasNextEntry ==
    /\ zcall.n < MaxZipCalls
    /\ zcall' = ZipCall("HasNextEntry", "", "nil", hasNextEntry(z), <<>>)
    /\ UNCHANGED <<z, got>>
    /\ ZipFrame

\* z.GetNextEntry(), on a reader no call has panicked on.
GetNextEntry ==
    /\ zcall.n < MaxZipCalls
    /\ zcall.err # "index out of range"
    /\ LET r == getNextEntry(z)
       IN  /\ z' = r.z
           /\ zcall' = ZipCall("GetNextEntry", "", r.err, r.ret, <<>>)
           /\ got' = IF r.err = "nil" THEN Append(got, r.ret) ELSE got
    /\ ZipFrame

\* z.ResetEntryIndex().
ResetEntryIndex ==
    /\ zcall.n < MaxZipCalls
    /\ z' = [z EXCEPT !.currentEntry = 0 - 1]
    /\ zcall' = ZipCall("ResetEntryIndex", "", "nil", "", <<>>)
    /\ got' = <<>>
    /\ ZipFrame

NextZip ==
    \/ \E name \in EntryNames \cup {NoSuchName} : GetEntry(name)
    \/ ReadCurrentEntry
    \/ HasNextEntry
    \/ GetNextEntry
    \/ ResetEntryIndex

SpecZip == InitZip /\ [][NextZip]_vars

(***************************************************************************)
(* Definitions the claims are stated with.                                  *)
(***************************************************************************)
PagingMarkers == {sLIMITq, sLimitq, sOFFSETq, sOffsetq}

\* The template has no LIMIT ? / OFFSET ? marker.
NoPaging(t) == \A m \in PagingMarkers : Index(t, m) = -1

\* The template has a doubled placeholder ??.
HasDoubled(t) == Index(t, <<"?", "?">>) >= 0

\* The substrings a dialect's idiom rewriter looks for.
IdiomPatterns(dbType) ==
    LET olds(rules) == {rules[i][1] : i \in 1..Len(rules)}
    IN  CASE dbType = Postgres -> olds(postgresRules) \cup {sMINUS, sMinus}
          [] dbType = MySQL -> olds(mysqlRules) \cup {sMINUS, sMinus}
          [] dbType = SQLServer -> olds(mssqlRules) \cup {sMINUS, sMinus}
          [] dbType \in {Oracle, Oci8, Oracle11g} ->
                olds(oracleRules) \cup {sEXCEPT, sExcept}
          [] OTHER -> {}

\* The text contains none of the dialect's idioms.
NoIdiom(t, dbType) == \A m \in IdiomPatterns(dbType) : Index(t, m) = -1

\* The concatenation of a sequence of sequences.
RECURSIVE Flat(_)
Flat(ss) ==
    IF Len(ss) = 0 THEN <<>>
    ELSE IF Len(ss) = 1 THEN ss[1]
    ELSE LET h == Len(ss) \div 2
         IN  Flat(SubSeq(ss, 1, h)) \o Flat(SubSeq(ss, h + 1, Len(ss)))

\* What renumbering is to give: the k-th placeholder of t, counted from the
\* left, becomes prefix followed by k; every other character stays.  With
\* no prefix the text stays as it is.
Renumbered(t, prefix) ==
    IF prefix = <<>> THEN t
    ELSE Flat([i \in 1..Len(t) |->
                 IF t[i] = "?"
                 THEN prefix \o Itoa(Count(SubSeq(t, 1, i), "?"))
                 ELSE <<t[i]>>])

IsDigit(c) == c \in {"0", "1", "2", "3", "4", "5", "6", "7", "8", "9"}

\* The number of parameter markers of a final text: ? with no prefix,
\* otherwise the prefix followed by a digit.
Markers(q, prefix) ==
    IF prefix = <<>> THEN Count(q, "?")
    ELSE Cardinality({i \in 1..(Len(q) - 1) :
                        q[i] = prefix[1] /\ IsDigit(q[i + 1])})

\* PQuery has returned a PreparedQuery (it did not panic).
Prepared == op = "PQuery" /\ ~pq.panicked

(***************************************************************************)
(* C1.  As claimed: for every dialect and every template with N             *)
(* placeholders, no ?? and no LIMIT/OFFSET idiom, PQuery returns the        *)
(* template with its k-th placeholder turned into $k (PostgreSQL), :k       *)
(* (Oracle) or left as ? (MySQL, SQL Server, SQLite), all other text        *)
(* unchanged, and the argument list unchanged.                              *)
(***************************************************************************)
C1_AsClaimed ==
    (op = "PQuery" /\ ~HasDoubled(tmpl) /\ NoPaging(tmpl))
        => /\ ~pq.panicked
           /\ pq.Query = Renumbered(tmpl, u.prefix)
           /\ pq.Args = inArgs

(***************************************************************************)
(* C1, amended: the same, for templates that also contain none of the       *)
(* dialect's idioms (which the idiom rewriter rewrites before the           *)
(* placeholders are renumbered).  The renumbering loop at the end of the    *)
(* older PQuery gives the same text.                                        *)
(***************************************************************************)
C1_Renumbering ==
    (op = "PQuery" /\ ~HasDoubled(tmpl) /\ NoPaging(tmpl)
       /\ NoIdiom(tmpl, u.dbType))
        => /\ ~pq.panicked
           /\ pq.Query = Renumbered(tmpl, u.prefix)
           /\ pqueryRenumber(tmpl, u.prefix) = Renumbered(tmpl, u.prefix)
           /\ Markers(pq.Query, u.prefix) = Count(tmpl, "?")
           /\ pq.Args = inArgs

\* A PostgreSQL query with two placeholders around plain text, renumbered.
C1_Witness ==
    /\ op = "PQuery"
    /\ u.dbType = Postgres
    /\ tmpl = <<"?", "a", "?">>
    /\ pq.Query = <<"$", "1", "a", "$", "2">>

(***************************************************************************)
(* C2.  On the fetch-paging dialects (SQL Server, oracle, oci8) a template  *)
(* that ends in LIMIT ? OFFSET ? (either case), its only paging markers,    *)
(* with arguments (a1..ak, limitVal, offsetVal) is returned with the        *)
(* paging clause reading OFFSET ? ROWS FETCH NEXT ? ROWS ONLY (then         *)
(* renumbered) and with arguments (a1..ak, offsetVal, limitVal).            *)
(***************************************************************************)
FetchPaging == {SQLServer, Oracle, Oci8}

PagingPairs ==
    { l \o <<" ">> \o o : l \in {sLIMITq, sLimitq}, o \in {sOFFSETq, sOffsetq} }

\* t ends with c.
EndsWith(t, c) == HasAt(t, Len(t) - Len(c) + 1, c)

\* t without its last n characters.
DropLast(t, n) == SubSeq(t, 1, Len(t) - n)

\* t is text without paging markers followed by one LIMIT ? OFFSET ? pair.
EndsInPair(t) ==
    \E c \in PagingPairs : EndsWith(t, c) /\ NoPaging(DropLast(t, Len(c)))

\* The text in front of the pair.
BeforePair(t) == DropLast(t, Len(sLIMITq) + 1 + Len(sOFFSETq))

RowNumberText(t) ==
    Renumbered(sSelectFrom \o TrimSpace(BeforePair(t)) \o sRownumBetween,
               PrefixOf(Oracle11g))

RowNumberCase ==
    /\ op = "PQuery"
    /\ u.dbType = Oracle11g
    /\ EndsInPair(tmpl)
    /\ NoIdiom(BeforePair(tmpl), Oracle11g)

C3_AsClaimed ==
    RowNumberCase
        => LET n == Len(inArgs)
               limitVal == inArgs[n - 1].v
               offsetVal == inArgs[n].v
           IN  /\ ~pq.panicked
               /\ pq.Query = RowNumberText(tmpl)
               /\ Len(pq.Args) = n
               /\ \A k \in 1..(n - 2) : pq.Args[k] = inArgs[k]
               /\ pq.Args[n - 1] = IntArg(offsetVal + 1)
               /\ pq.Args[n] = IntArg(offsetVal + limitVal)

(***************************************************************************)
(* C3, amended: the last two returned arguments are offsetVal + 1 and       *)
(* offsetVal + limitVal computed in Go's int: equal to the sums when these  *)
(* are representable, and otherwise the sums wrapped around (the int of     *)
(* the same residue modulo 2^IntBits).                                      *)
(***************************************************************************)
InRange(x) == MinInt <= x /\ x <= MaxInt

\* v is the Go int that the integer x wraps to.
WrapsTo(v, x) == InRange(v) /\ (v - x) % (2 ^ IntBits) = 0

C3_RowBounds ==
    RowNumberCase
        => LET n == Len(inArgs)
               limitVal == inArgs[n - 1].v
               offsetVal == inArgs[n].v
           IN  /\ ~pq.panicked
               /\ pq.Query = RowNumberText(tmpl)
               /\ Len(pq.Args) = n
               /\ \A k \in 1..(n - 2) : pq.Args[k] = inArgs[k]
               /\ pq.Args[n - 1].int /\ pq.Args[n].int
               /\ WrapsTo(pq.Args[n - 1].v, offsetVal + 1)
               /\ WrapsTo(pq.Args[n].v, offsetVal + limitVal)
               /\ InRange(offsetVal + 1)
                    => pq.Args[n - 1].v = offsetVal + 1
               /\ InRange(offsetVal + limitVal)
                    => pq.Args[n].v = offsetVal + limitVal

\* Limit MaxInt at offset 0 after one other argument: rows 1 to MaxInt.
C3_Witness ==
    /\ RowNumberCase
    /\ inArgs = <<StrArg(1), IntArg(MaxInt), IntArg(0)>>
    /\ pq.Args = <<StrArg(1), IntArg(1), IntArg(MaxInt)>>
    /\ Markers(pq.Query, u.prefix) = 3

(***************************************************************************)
(* C4.  As claimed: a doubled placeholder ?? stands for one literal ?: in   *)
(* the text PQuery returns there is a single ? at that place, which is not  *)
(* a positional token and takes no positional index, in every dialect.      *)
(***************************************************************************)
\* The text the escape convention asks for: ?? becomes ?, and the k-th
\* single ? becomes the k-th positional token.
Escaped(t, prefix) ==
    Flat([i \in 1..Len(t) |->
            IF t[i] # "?" THEN <<t[i]>>
            ELSE IF IsSingle(t, i)
            THEN IF prefix = <<>> THEN sQ
                 ELSE prefix \o Itoa(Cardinality({j \in 1..i : IsSingle(t, j)}))
            ELSE IF RunLength(t, i) % 2 = 1 THEN sQ
            ELSE <<>>])

C4_AsClaimed ==
    (op = "PQuery" /\ HasDoubled(tmpl) /\ NoPaging(tmpl)
       /\ NoIdiom(tmpl, u.dbType) /\ Len(inArgs) = Singles(tmpl))
        => /\ ~pq.panicked
           /\ pq.Query = Escaped(tmpl, u.prefix)
           /\ Markers(pq.Query, u.prefix) = Len(pq.Args)

(***************************************************************************)
(* C5.  What "the i-th marker is bound to the right argument" means.  A     *)
(* placeholder of the template is the limit (after LIMIT), the offset       *)
(* (after OFFSET) or a plain one, and the caller passes one argument per    *)
(* placeholder, in order.  A marker of the final text asks, by the          *)
(* keyword in front of it, for the row count, the offset, the first row     *)
(* (offset + 1), the last row (offset + limit) or a plain value.            *)
(***************************************************************************)
kwLIMIT == DropLast(sLIMITq, 1)
kwLimit == DropLast(sLimitq, 1)
kwOFFSET == DropLast(sOFFSETq, 1)
kwOffset == DropLast(sOffsetq, 1)
kwFetchNext == <<"F", "E", "T", "C", "H", " ", "N", "E", "X", "T", " ">>
kwBetween == <<"B", "E", "T", "W", "E", "E", "N", " ">>
kwBetween0And == kwBetween \o <<"0", " ", "A", "N", "D", " ">>
kwAnd == <<" ", "A", "N", "D", " ">>
kwGe == <<">", "=", " ">>

\* t has kw right in front of position i.
Before(t, i, kw) == HasAt(t, i - Len(kw), kw)

TemplateRole(t, i) ==
    IF Before(t, i, kwLIMIT) \/ Before(t, i, kwLimit) THEN "limit"
    ELSE IF Before(t, i, kwOFFSET) \/ Before(t, i, kwOffset) THEN "offset"
    ELSE "plain"

\* The positions of t's placeholders with the given role.
Placeholders(t, role) ==
    {i \in 1..Len(t) : t[i] = "?" /\ TemplateRole(t, i) = role}

\* The positions of the markers of a final text.
MarkerPositions(q, prefix) ==
    IF prefix = <<>> THEN {i \in 1..Len(q) : q[i] = "?"}
    ELSE {i \in 1..(Len(q) - 1) : q[i] = prefix[1] /\ IsDigit(q[i + 1])}

\* The position right after the marker at position i.
MarkerEnd(q, prefix, i) ==
    IF prefix = <<>> THEN i + 1
    ELSE LET stops == {j \in (i + 1)..Len(q) : ~IsDigit(q[j])}
         IN  IF stops = {} THEN Len(q) + 1
             ELSE CHOOSE j \in stops : \A k \in stops : j <= k

FinalRole(q, prefix, i) ==
    IF Before(q, i, kwFetchNext) \/ Before(q, i, kwBetween0And)
         \/ Before(q, i, kwLIMIT) \/ Before(q, i, kwLimit) THEN "limit"
    ELSE IF Before(q, i, kwOFFSET) \/ Before(q, i, kwOffset) THEN "offset"
    ELSE IF Before(q, i, kwBetween) \/ Before(q, i, kwGe) THEN "first"
    ELSE IF \E m \in MarkerPositions(q, prefix) :
                /\ Before(q, m, kwBetween)
                /\ MarkerEnd(q, prefix, m) + Len(kwAnd) = i
                /\ Before(q, i, kwAnd)
    THEN "last"
    ELSE "plain"

\* The k-th smallest element of a set of positions.
Kth(S, k) == CHOOSE i \in S : Cardinality({j \in S : j < i}) = k - 1

\* The rank of position i among the positions S.
Rank(S, i) == Cardinality({j \in S : j <= i})

\* The index of the argument passed for the template's placeholder at i.
ArgIndex(t, i) == Count(SubSeq(t, 1, i), "?")

\* The Go int a sum wraps to.
WrapInt(x) == CHOOSE v \in MinInt..MaxInt : WrapsTo(v, x)

\* The template has one placeholder per argument, at most one limit and at
\* most one offset, and int arguments for them.
Bindable(t, args) ==
    /\ Count(t, "?") = Len(args)
    /\ Cardinality(Placeholders(t, "limit")) <= 1
    /\ Cardinality(Placeholders(t, "offset")) <= 1
    /\ \A i \in Placeholders(t, "limit") \cup Placeholders(t, "offset") :
          args[ArgIndex(t, i)].int

\* The argument the marker at position i of the final text q asks for.
Wanted(t, args, q, prefix, i) ==
    LET role == FinalRole(q, prefix, i)
        limits == Placeholders(t, "limit")
        offsets == Placeholders(t, "offset")
        limitVal == args[ArgIndex(t, Kth(limits, 1))].v
        offsetVal == args[ArgIndex(t, Kth(offsets, 1))].v
        plains == {m \in MarkerPositions(q, prefix) :
                     FinalRole(q, prefix, m) = "plain"}
    IN  CASE role = "limit" -> IntArg(limitVal)
          [] role = "offset" -> IntArg(offsetVal)
          [] role = "first" -> IntArg(WrapInt(offsetVal + 1))
          [] role = "last" -> IntArg(WrapInt(offsetVal + limitVal))
          [] OTHER ->
               args[ArgIndex(t, Kth(Placeholders(t, "plain"),
                                    Rank(plains, i)))]

\* The final text has one marker per returned argument, and each marker
\* gets the argument it asks for.
WellBound(t, args, p) ==
    LET ms == MarkerPositions(p.Query, p.ParamPrefix)
        plains == {m \in ms : FinalRole(p.Query, p.ParamPrefix, m) = "plain"}
    IN  /\ Cardinality(ms) = Len(p.Args)
        /\ Cardinality(plains) = Cardinality(Placeholders(t, "plain"))
        /\ \A m \in ms :
              /\ FinalRole(p.Query, p.ParamPrefix, m) \in {"limit", "last"}
                    => Placeholders(t, "limit") # {}
              /\ FinalRole(p.Query, p.ParamPrefix, m)
                    \in {"offset", "first", "last"}
                    => Placeholders(t, "offset") # {}
        /\ \A m \in ms :
              p.Args[Rank(ms, m)] = Wanted(t, args, p.Query, p.ParamPrefix, m)

(***************************************************************************)
(* C5.  As claimed: for every dialect and every template with as many       *)
(* placeholders as arguments, after Prepare the final text has len(Args)    *)
(* markers and the i-th marker is bound to Args[i-1], also after idiom      *)
(* and LIMIT/OFFSET rewriting, including when text or placeholders follow   *)
(* the paging clause.                                                       *)
(***************************************************************************)
C5_AsClaimed ==
    (Prepared /\ ~HasDoubled(tmpl) /\ Bindable(tmpl, inArgs))
        => WellBound(tmpl, inArgs, pq)

(***************************************************************************)
(* C5, amended: the same for templates in which any LIMIT ? / OFFSET ?      *)
(* comes once, as LIMIT ? OFFSET ?, LIMIT ? or OFFSET ?, and holds the      *)
(* last placeholders of the template (text without placeholders may         *)
(* follow).                                                                 *)
(***************************************************************************)
\* The position of the last placeholder of t (0 when there is none).
LastPlaceholder(t) ==
    LET qs == {i \in 1..Len(t) : t[i] = "?"}
    IN  IF qs = {} THEN 0 ELSE CHOOSE i \in qs : \A j \in qs : j <= i

PagingLast(t) ==
    \/ NoPaging(t)
    \/ \E c \in PagingPairs \cup PagingMarkers :
          LET e == LastPlaceholder(t)
          IN  /\ HasAt(t, e - Len(c) + 1, c)
              /\ NoPaging(SubSeq(t, 1, e - Len(c)))

C5_MarkersMatchArgs ==
    (Prepared /\ ~HasDoubled(tmpl) /\ Bindable(tmpl, inArgs)
       /\ PagingLast(tmpl))
        => WellBound(tmpl, inArgs, pq)

\* Oracle 11g, a plain placeholder and then the pair: three markers, the
\* plain argument first, then first row 2 and last row 1 + MaxInt wrapped.
C5_Witness ==
    /\ Prepared
    /\ u.dbType = Oracle11g
    /\ tmpl = <<"?", " ">> \o sLIMITq \o <<" ">> \o sOFFSETq \o <<" ", "a">>
    /\ inArgs = <<StrArg(1), IntArg(MaxInt), IntArg(1)>>
    /\ pq.Args = <<StrArg(1), IntArg(2), IntArg(MinInt)>>
    /\ Cardinality(MarkerPositions(pq.Query, pq.ParamPrefix)) = 3

(***************************************************************************)
(* C6.  As claimed: for every dialect, running the idiom substitutions on   *)
(* a text they have already been run on leaves the text unchanged.          *)
(***************************************************************************)
C6_AsClaimed ==
    [][(op = "substitute" /\ op' = "substitute") => pq'.Query = pq.Query]_vars

(***************************************************************************)
(* C6, amended: the substitutions of SQL Server, and of the dialects        *)
(* without substitutions, leave a text they have been run on unchanged;     *)
(* those of PostgreSQL, MySQL and Oracle do not.                            *)
(***************************************************************************)
Reentrant == {SQLServer, Sqlite3}

C6_SecondPassSame ==
    [][(op = "substitute" /\ op' = "substitute" /\ u.dbType \in Reentrant)
          => pq'.Query = pq.Query]_vars

\* SQL Server, a template with now(): the first pass made it getutcdate(),
\* the second pass has run and the text is still that.
C6_Witness ==
    /\ op = "substitute"
    /\ passes = 2
    /\ u.dbType = SQLServer
    /\ tmpl = sNow
    /\ pq.Query = sGetutcdate

(***************************************************************************)
(* The row scanner's claims speak of one call of Scan: of the row and the   *)
(* destination record before the call and of the record and the error       *)
(* after it.                                                                *)
(***************************************************************************)
\* This step is a call of Scan on an SQLScan that has cached nothing, so
\* that the column names are those of the row.
FirstScan == scans' = scans + 1 /\ s = NewScan

Quoted(name) == name[1] = "\""

OracleDrivers == {Oci8, Oracle, Oracle11g}

\* The name the tags are compared with, as the claims correct it: the
\* driver's, lower-cased when the driver is Oracle's and the name unquoted.
Compared(dbType, name) ==
    IF dbType \in OracleDrivers /\ ~Quoted(name) THEN ToLower(name) ELSE name

\* The fields whose tag is exactly name, and those whose tag is name up to
\* letter case.
Tagged(name) == {j \in 1..nFields : destFields[j].tag = name}

TaggedAnyCase(name) ==
    {j \in 1..nFields : ToLower(destFields[j].tag) = ToLower(name)}

\* The value fits a field of the type: a text for a string, an instant for
\* a temporal field.
Fits(value, type) ==
    IF type = "string" THEN value.kind = "string" /\ value.text = <<"x">>
    ELSE value.kind = "time"

\* The field holds the column's value: the text, or the date and the clock
\* of the instant.
Holds(field, value, type) ==
    CASE type = "string" -> field = value.text
      [] type = "time" ->
           field.date = value.time.date /\ field.clock = value.time.clock
      [] OTHER ->
           /\ field.Valid
           /\ field.Time.date = value.time.date
           /\ field.Time.clock = value.time.clock

\* Under the matching F (a name's fields), every column of the row has
\* one field, no two columns share one and every value fits its field.
AllFit(F(_)) ==
    /\ \A i \in 1..Len(rows.cols) :
          /\ Cardinality(F(rows.cols[i])) = 1
          /\ \A j \in F(rows.cols[i]) : Fits(rows.vals[i], destFields[j].type)
    /\ \A i, k \in 1..Len(rows.cols) :
          i # k => F(rows.cols[i]) \cap F(rows.cols[k]) = {}

\* After the call every column's field, under F, holds the column's value.
AllHeld(F(_)) ==
    \A i \in 1..Len(rows.cols) : \A j \in F(rows.cols[i]) :
       Holds(dest'[j], rows.vals[i], destFields[j].type)

TaggedExactly(name) == Tagged(Compared(u.dbType, name))

Unmatched(i) ==
    /\ TaggedExactly(rows.cols[i]) = {}
    /\ ~(u.dbType \in OracleDrivers
           /\ Compared(u.dbType, rows.cols[i]) = rnumignore)

\* Every column of the row but the unmatched ones has one field, its own,
\* and a fitting value.
OthersFit ==
    /\ \A i \in 1..Len(rows.cols) :
          Unmatched(i)
          \/ /\ Cardinality(TaggedExactly(rows.cols[i])) = 1
             /\ \A j \in TaggedExactly(rows.cols[i]) :
                   Fits(rows.vals[i], destFields[j].type)
    /\ \A i, k \in 1..Len(rows.cols) :
          i # k => TaggedExactly(rows.cols[i]) \cap TaggedExactly(rows.cols[k]) = {}

C8_AsClaimed ==
    [][(FirstScan /\ OthersFit /\ \E i \in 1..Len(rows.cols) : Unmatched(i))
         => /\ err' = "nil"
            /\ AllHeld(TaggedExactly)
            /\ \A j \in 1..nFields :
                  (\A i \in 1..Len(rows.cols) :
                      j \notin TaggedExactly(rows.cols[i]))
                      => dest'[j] = dest[j]]_vars

(***************************************************************************)
(* C9.  As claimed: on SQLite, when the text of a temporal column matches   *)
(* none of the scanner's date formats, Scan returns nil, the temporal       *)
(* field holds the zero value and the other columns are bound normally.     *)
(***************************************************************************)
\* The text as the scanner reads it: the first T a space, the first Z
\* dropped.
Normalised(text) ==
    ReplaceFirst(ReplaceFirst(text, <<"T">>, <<" ">>), <<"Z">>, <<>>)

NoFormat(text) ==
    \A k \in 1..Len(dateformats) : ~Parses(Normalised(text), dateformats[k])

\* The zero value of a field of the type.
ZeroOf(type) ==
    IF type = "time" THEN ZeroTime ELSE [Time |-> ZeroTime, Valid |-> FALSE]

\* Every column of the row has one field, its own; a string field has a
\* fitting value and a temporal field an instant or a text.
AllFitText ==
    /\ \A i \in 1..Len(rows.cols) :
          /\ Cardinality(TaggedExactly(rows.cols[i])) = 1
          /\ \A j \in TaggedExactly(rows.cols[i]) :
                \/ Fits(rows.vals[i], destFields[j].type)
                \/ /\ isTemporal(destFields[j].type)
                   /\ rows.vals[i].kind = "string"
    /\ \A i, k \in 1..Len(rows.cols) :
          i # k => TaggedExactly(rows.cols[i]) \cap TaggedExactly(rows.cols[k]) = {}

\* The columns of the row that hold a text for a temporal field.
TemporalTexts ==
    {i \in 1..Len(rows.cols) :
       /\ rows.vals[i].kind = "string"
       /\ \E j \in TaggedExactly(rows.cols[i]) : isTemporal(destFields[j].type)}

NullTimeColumns ==
    {i \in 1..Len(rows.cols) :
       /\ \E j \in TaggedExactly(rows.cols[i]) :
             destFields[j].type = "nulltime"
       /\ \A k \in 1..Len(rows.cols) :
             k # i => TaggedExactly(rows.cols[k])
                         \cap TaggedExactly(rows.cols[i]) = {}}

C10_AsClaimed ==
    [][(FirstScan /\ err' = "nil")
         => \A i \in NullTimeColumns :
               rows.vals[i] = Null
                  => \A j \in TaggedExactly(rows.cols[i]) :
                        dest'[j] = [Time |-> ZeroTime, Valid |-> FALSE]]_vars

(***************************************************************************)
(* C11.  As claimed: for every dialect and every zone the driver attached   *)
(* to the instant it returned, each temporal field (time.Time or valid      *)
(* NullTime) a successful Scan has written is expressed in UTC.             *)
(***************************************************************************)
\* The columns of the row for which the driver returned an instant and
\* that are bound to a temporal field, each the only column of its field.
InstantColumns ==
    {i \in 1..Len(rows.cols) :
       /\ rows.vals[i].kind = "time"
       /\ \E j \in TaggedExactly(rows.cols[i]) : isTemporal(destFields[j].type)
       /\ \A k \in 1..Len(rows.cols) :
             k # i => TaggedExactly(rows.cols[k])
                         \cap TaggedExactly(rows.cols[i]) = {}}

\* The instant a temporal field holds (of a NullTime, its Time).
InstantOf(field, type) == IF type = "time" THEN field ELSE field.Time

Connect2DatabaseStep ==
    calls' = calls + 1 /\ call'.name = "Connect2Database"

\* The identifier is empty or not one of the supported set.
Unsupported(dbType) == dbType = "" \/ dbType \notin DbTypes

\* C12: a call of Connect2Database (and so of setDbType) with an identifier
\* that is empty or not one of the supported set panics before any state
\* change: dbType, prefix and the stored connection of the DbUtils keep
\* their previous values and no connection is opened (the caller's *sql.DB
\* is left as it was).
C12_PanicsBeforeChange ==
    [][(Connect2DatabaseStep /\ Unsupported(call'.dbType))
         => /\ call'.result = "panic"
            /\ u'.dbType = u.dbType
            /\ u'.prefix = u.prefix
            /\ u'.db = u.db
            /\ db' = db]_vars

\* An Oracle connection was made, and a second call, with the identifier
\* of a supported driver in capitals, panicked and left it as it was.
C12_Witness ==
    /\ calls = 2
    /\ call = [name |-> "Connect2Database", dbType |-> "POSTGRES",
               result |-> "panic"]
    /\ u = [dbType |-> Oracle, prefix |-> <<":">>, db |-> OpenDB(Oci8)]
    /\ db = OpenDB(Oci8)

(***************************************************************************)
(* C13.                                                                     *)
(***************************************************************************)
\* A step that is a call of RunQuery or RunQueryTx.
RunQueryStep ==
    calls' = calls + 1 /\ call'.name \in {"RunQuery", "RunQueryTx"}

\* The errors of rows.Scan.
RowsScanErrors == {"convert", "count"}

\* C13: when rows.Scan fails, Scan returns exactly that error, and RunQuery
\* and RunQueryTx return that same error to their caller instead of nil.
C13_AsClaimed ==
    [][(RunQueryStep /\ err' \in RowsScanErrors)
         => call'.result = err']_vars

(***************************************************************************)
(* C14.                                                                     *)
(***************************************************************************)
\* A step that is a call of Scan.
ScanStep == scans' = scans + 1

\* The SQLScan has scanned rows of the result set of the cursor only: its
\* cache is empty or holds the names Scan read from this result set.
OfThisResultSet ==
    \/ s = NewScan
    \/ /\ s.columnNames = columnNamesOf(u.dbType, rows.cols)
       /\ s.dateformats = IF isSqlite(u.dbType) THEN dateformats ELSE <<>>

\* C14: for the rows of one result set, the Scan of a row with the SQLScan
\* that scanned the rows before it (cached names) leaves the same
\* destination and returns the same error as the Scan of that row with a
\* fresh SQLScan.
C14_CacheIsTransparent ==
    [][(ScanStep /\ ~Closed(rows) /\ OfThisResultSet)
         => LET fresh == scan(NewScan, u.dbType, rows, dest)
            IN  dest' = fresh.dest /\ err' = fresh.err]_vars

\* On Oracle a second row of the result set with column A was scanned with
\* the cached name a: its NULL failed to convert and the text of the first
\* row is still in the field.
C14_Witness ==
    /\ scans = 2
    /\ u.dbType = Oracle
    /\ s.columnNames = << <<"a">> >>
    /\ rows = SameValue(<< <<"A">> >>, Null)
    /\ dest[1] = <<"x">>
    /\ err = "convert"

(***************************************************************************)
(* C15.                                                                     *)
(***************************************************************************)
\* A step of Clear: the only step that changes the SQLScan and is not a
\* Scan.
ClearStep == s' # s /\ scans' = scans

CacheEmpty(sc) == Len(sc.columnNames) = 0

\* C15: the lifecycle of the cache.  A Scan that finds the cache empty reads
\* the column names from the cursor and caches them; a Scan that finds
\* names in the cache reuses them and does not read the cursor's, also when
\* the cursor belongs to another query or is closed; Clear empties the
\* cache, the column names and the date formats, so that the next Scan
\* reads the names again; a Scan whose column read fails returns the error
\* and leaves the cache empty.
C15_CacheLifecycle ==
    [][/\ (ScanStep /\ CacheEmpty(s) /\ ~Closed(rows))
            => s'.columnNames = columnNamesOf(u.dbType, rows.cols)
       /\ (ScanStep /\ ~CacheEmpty(s))
            => s'.columnNames = s.columnNames
       /\ ClearStep => s' = NewScan
       /\ (ScanStep /\ CacheEmpty(s) /\ Closed(rows))
            => CacheEmpty(s') /\ err' = "closed"]_vars

\* A Scan on the cursor of another query, of two columns, used the one
\* name cached from the first query and failed on the number of columns.
C15_Witness ==
    /\ scans = 2
    /\ u.dbType = Postgres
    /\ s.columnNames = << <<"T">> >>
    /\ rows = SameValue(<< <<"n">>, <<"a">> >>,
                        TimeVal(NewTime("D", "t", 6, "UTC")))
    /\ err = "count"

(***************************************************************************)
(* C16.                                                                     *)
(***************************************************************************)
\* The first call of PQuery, and a second one with the same template and
\* the same slice.
PQueryStep == op = "new" /\ op' = "PQuery"

PQueryAgainStep == op = "PQuery" /\ op' = "PQueryAgain"

\* C16: PQuery never modifies the argument sequence the caller passed in:
\* after the call the caller's sequence holds the same values in the same
\* order; a second PQuery with the same template and the same sequence
\* returns a PreparedQuery with the same Query and the same Args as the
\* first, and the Args of the first are not changed by the second call.
C16_AsClaimed ==
    [][/\ (PQueryStep /\ ~pq'.panicked) => argv' = argv
       /\ (PQueryAgainStep /\ ~pq2'.panicked)
            => /\ argv' = argv
               /\ pq'.Args = pq.Args
               /\ pq2'.Query = pq.Query
               /\ pq2'.Args = pq.Args]_vars

(***************************************************************************)
(* C17.                                                                     *)
(***************************************************************************)
\* The current-instant calls a dialect's rewriter replaces, and the form
\* that returns UTC it replaces them with.
InstantCallsOf(dbType) ==
    CASE dbType \in {Postgres, MySQL} -> {sNow, sCurrentTimestamp}
      [] dbType = SQLServer -> {sNow, sGetdate, sCurrentTimestamp}
      [] dbType \in OracleDrivers ->
           {sNow, sSystimestamp, sSysdate, sCurrentTimestamp}
      [] OTHER -> {}

UTCForm(dbType, c) ==
    CASE dbType = Postgres /\ c = sNow -> sNowUTC
      [] dbType = Postgres -> sCurrentTimestampUTC
      [] dbType = MySQL -> sUtcTimestamp
      [] dbType = SQLServer -> sGetutcdate
      [] OTHER -> sSysExtractUtc

\* The template t, a sequence of current-instant calls and spaces, with
\* each call of the dialect replaced by one occurrence of its UTC form.
RECURSIVE EachOnce(_, _)
EachOnce(dbType, t) ==
    IF t = <<>> THEN <<>>
    ELSE LET here == {c \in InstantCalls : HasAt(t, 1, c)}
         IN  IF here = {} THEN <<Head(t)>> \o EachOnce(dbType, Tail(t))
             ELSE LET c == CHOOSE x \in here : TRUE
                      rest == EachOnce(dbType, From(t, Len(c)))
                  IN  IF c \in InstantCallsOf(dbType)
                      THEN UTCForm(dbType, c) \o rest
                      ELSE c \o rest

\* The PreparedQuery is the result of one pass of the idiom rewriter.
OnePass == op = "substitute" /\ passes = 1 /\ ~pq.panicked

\* C17: no rule re-matches the output of an earlier rule: after one pass of
\* a dialect's idiom rewriter each current-instant call of the template
\* appears as exactly one occurrence of the UTC form of the backend, never
\* nested in another one (Oracle now() becomes sys_extract_utc(systimestamp)).
C17_AsClaimed == OnePass => pq.Query = EachOnce(u.dbType, tmpl)

\* The same for the dialects other than Oracle: their replacements hold
\* none of the calls a later rule looks for.
C17_ExceptOracle ==
    (OnePass /\ u.dbType \notin OracleDrivers)
        => pq.Query = EachOnce(u.dbType, tmpl)

(***************************************************************************)
(* C18.                                                                     *)
(***************************************************************************)
\* The keywords a dialect translates, each with its translation.
KeywordsOf(dbType) ==
    CASE dbType \in {Postgres, MySQL, SQLServer} ->
           { <<sMINUS, sEXCEPT>>, <<sMinus, sExcept>> }
      [] dbType \in OracleDrivers ->
           { <<sEXCEPT, sMINUS>>, <<sExcept, sMinus>> }
      [] OTHER -> {}

\* The keyword kw stands at position i of t with a white space character
\* immediately before and after it.
Delimited(t, i, kw) ==
    /\ HasAt(t, i, kw)
    /\ i > 1 /\ IsWhiteSpace(t[i - 1])
    /\ i + Len(kw) <= Len(t) /\ IsWhiteSpace(t[i + Len(kw)])

\* t from position i on, with every delimited keyword of the dialect
\* translated and everything else as it is.
RECURSIVE TranslatedFrom(_, _, _)
TranslatedFrom(dbType, t, i) ==
    IF i > Len(t) THEN <<>>
    ELSE LET here == {k \in KeywordsOf(dbType) : Delimited(t, i, k[1])}
         IN  IF here = {}
             THEN <<t[i]>> \o TranslatedFrom(dbType, t, i + 1)
             ELSE LET k == CHOOSE x \in here : TRUE
                  IN  k[2] \o TranslatedFrom(dbType, t, i + Len(k[1]))

\* C18: for PostgreSQL, MySQL and SQL Server every MINUS (minus) with a
\* white space character immediately before and after it becomes EXCEPT
\* (except), for the Oracle dialects every such EXCEPT (except) becomes
\* MINUS (minus); occurrences not delimited by white space on both sides
\* and all other text are left unchanged, for any number of occurrences.
C18_AsClaimed ==
    op = "PQuery"
        => ~pq.panicked /\ pq.Query = TranslatedFrom(u.dbType, tmpl, 1)

\* The same for the calls that return: the translation is as claimed
\* whenever the keyword loop does not index outside the text.
C18_WhenReturning ==
    (op = "PQuery" /\ ~pq.panicked)
        => pq.Query = TranslatedFrom(u.dbType, tmpl, 1)

(***************************************************************************)
(* C19.                                                                     *)
(***************************************************************************)
\* The template has a LIMIT ? marker, in either case, and no OFFSET ?.
LimitOnly(t) ==
    /\ Index(t, sLIMITq) >= 0 \/ Index(t, sLimitq) >= 0
    /\ Index(t, sOFFSETq) < 0 /\ Index(t, sOffsetq) < 0

\* The place (from 0) of the first LIMIT ? of t, whatever its case.
FirstLimit(t) ==
    LET at == {Index(t, sLIMITq), Index(t, sLimitq)} \ {-1}
    IN  CHOOSE i \in at : \A j \in at : i <= j

\* The place of the first LIMIT ? in capitals, and without one the place
\* of the first limit ?.
FirstLimitCapitalsFirst(t) ==
    IF Index(t, sLIMITq) >= 0 THEN Index(t, sLIMITq) ELSE Index(t, sLimitq)

kwOffset0Rows ==
    <<"O", "F", "F", "S", "E", "T", " ", "0", " ", "R", "O", "W", "S">>

kwFetchNextRowsOnly ==
    kwFetchNext \o <<"?", " ", "R", "O", "W", "S", " ", "O", "N", "L", "Y">>

\* t with the LIMIT ? at place idx replaced by OFFSET 0 ROWS followed, on
\* the next line, by FETCH NEXT ? ROWS ONLY.
LimitReplacedAt(t, idx) ==
    Slice(t, 0, idx) \o kwOffset0Rows \o <<"\n">> \o kwFetchNextRowsOnly
        \o From(t, idx + Len(sLIMITq))

\* C19 as claimed: on the fetch-paging dialects a template with LIMIT ?
\* (either case) and no OFFSET ? is rewritten by replacing the first
\* LIMIT ? with OFFSET 0 ROWS followed by FETCH NEXT ? ROWS ONLY; the text
\* before and after the marker, the number of placeholders and the
\* argument list are unchanged.
C19_AsClaimed ==
    (op = "PQuery" /\ u.dbType \in FetchPaging /\ LimitOnly(tmpl)
       /\ NoIdiom(tmpl, u.dbType))
        => /\ ~pq.panicked
           /\ pq.Query = Renumbered(LimitReplacedAt(tmpl, FirstLimit(tmpl)),
                                    u.prefix)
           /\ Markers(pq.Query, u.prefix) = Count(tmpl, "?")
           /\ pq.Args = inArgs

\* C19 amended: the marker replaced is the first LIMIT ? in capitals, and
\* only when the template has none the first limit ?; the text before and
\* after that marker (a marker of the other case included), the number of
\* placeholders and the argument list are unchanged.
C19_LimitOnly ==
    (op = "PQuery" /\ u.dbType \in FetchPaging /\ LimitOnly(tmpl)
       /\ NoIdiom(tmpl, u.dbType))
        => /\ ~pq.panicked
           /\ pq.Query =
                Renumbered(LimitReplacedAt(tmpl,
                                           FirstLimitCapitalsFirst(tmpl)),
                           u.prefix)
           /\ Markers(pq.Query, u.prefix) = Count(tmpl, "?")
           /\ pq.Args = inArgs

\* On SQL Server limit ? LIMIT ? was prepared: the second marker, the one
\* in capitals, was replaced.
C19_Witness ==
    /\ op = "PQuery"
    /\ u.dbType = SQLServer
    /\ tmpl = sLimitq \o <<" ">> \o sLIMITq
    /\ pq.Query = sLimitq \o <<" ">> \o kwOffset0Rows \o <<"\n">>
                    \o kwFetchNextRowsOnly

(***************************************************************************)
(* C20.                                                                     *)
(***************************************************************************)
\* The place (from 0) of the OFFSET ? marker of t.
OffsetMarker(t) ==
    IF Index(t, sOFFSETq) >= 0 THEN Index(t, sOFFSETq)
    ELSE Index(t, sOffsetq)

\* The text in front of the OFFSET ? marker.
BeforeOffset(t) == Slice(t, 0, OffsetMarker(t))

\* Oracle 11g has prepared a template with OFFSET ? (either case) and no
\* LIMIT ?, whose last argument is an int.
OffsetOnlyCase ==
    /\ op = "PQuery"
    /\ u.dbType = Oracle11g
    /\ Index(tmpl, sOFFSETq) >= 0 \/ Index(tmpl, sOffsetq) >= 0
    /\ Index(tmpl, sLIMITq) < 0 /\ Index(tmpl, sLimitq) < 0
    /\ NoIdiom(BeforeOffset(tmpl), Oracle11g)
    /\ Len(inArgs) >= 1
    /\ inArgs[Len(inArgs)].int

\* The text before the marker as a subquery, followed by WHERE rownum >= ?,
\* with the placeholders numbered.
OffsetOnlyText(t) ==
    Renumbered(<<"S", "E", "L", "E", "C", "T", " ", "*", " ",
                 "F", "R", "O", "M", " ", "(", "\n">>
                   \o TrimSpace(BeforeOffset(t))
                   \o <<")", "\n", "W", "H", "E", "R", "E", " ",
                        "r", "o", "w", "n", "u", "m", " ">>
                   \o kwGe \o <<"?">>,
               PrefixOf(Oracle11g))

\* C20 as claimed: the template is rewritten to the text before the marker
\* wrapped as a subquery followed by WHERE rownum >= ?, the last argument
\* offsetVal is replaced by offsetVal + 1 and every other argument is
\* unchanged.
C20_AsClaimed ==
    OffsetOnlyCase
        => LET n == Len(inArgs)
           IN  /\ ~pq.panicked
               /\ pq.Query = OffsetOnlyText(tmpl)
               /\ Len(pq.Args) = n
               /\ \A k \in 1..(n - 1) : pq.Args[k] = inArgs[k]
               /\ pq.Args[n] = IntArg(inArgs[n].v + 1)

\* C20 amended: the last argument is offsetVal + 1 computed in Go's int:
\* equal to the sum when offsetVal is less than the largest int, and the
\* smallest int when offsetVal is the largest.
C20_OffsetOnly ==
    OffsetOnlyCase
        => LET n == Len(inArgs)
               offsetVal == inArgs[n].v
           IN  /\ ~pq.panicked
               /\ pq.Query = OffsetOnlyText(tmpl)
               /\ Len(pq.Args) = n
               /\ \A k \in 1..(n - 1) : pq.Args[k] = inArgs[k]
               /\ pq.Args[n].int
               /\ WrapsTo(pq.Args[n].v, offsetVal + 1)
               /\ offsetVal < MaxInt => pq.Args[n].v = offsetVal + 1
               /\ offsetVal = MaxInt => pq.Args[n].v = MinInt

\* Offset MaxInt after one other argument: the offset that is bound is the
\* smallest int.
C20_Witness ==
    /\ op = "PQuery"
    /\ u.dbType = Oracle11g
    /\ tmpl = <<"?", " ">> \o sOFFSETq
    /\ inArgs = <<IntArg(0), IntArg(MaxInt)>>
    /\ pq.Args = <<IntArg(0), IntArg(MinInt)>>

(***************************************************************************)
(* C21.  As claimed: after a successful Scan on an Oracle dialect every     *)
(* bound time.Time field and every valid NullTime field has exactly the     *)
(* wall-clock fields the driver returned (date, clock and the fractional    *)
(* second) with the zone replaced by UTC; a NullTime field that is not      *)
(* valid and the fields no column is bound to (the column rnumignore binds  *)
(* none) are not touched by the correction.                                 *)
(***************************************************************************)
\* This step is a first call of Scan on an Oracle dialect that succeeds.
OracleScan == FirstScan /\ u.dbType \in OracleDrivers /\ err' = "nil"

\* The columns with a NULL that are bound to a NullTime field.
NullColumns ==
    {i \in 1..Len(rows.cols) :
       /\ rows.vals[i].kind = "null"
       /\ \E j \in TaggedExactly(rows.cols[i]) : destFields[j].type = "nulltime"}

\* The fields no column of the row is bound to.
Unbound ==
    {j \in 1..nFields :
       \A i \in 1..Len(rows.cols) : j \notin TaggedExactly(rows.cols[i])}

\* The correction has left alone what it must: an invalid NullTime holds
\* what NullTime.Scan stored, an unbound field what it held before.
C21_Untouched ==
    /\ \A i \in NullColumns : \A j \in TaggedExactly(rows.cols[i]) :
          dest'[j] = [Time |-> ZeroTime, Valid |-> FALSE]
    /\ \A j \in Unbound : dest'[j] = dest[j]

C21_AsClaimed ==
    [][OracleScan
         => /\ \A i \in InstantColumns : \A j \in TaggedExactly(rows.cols[i]) :
                  InstantOf(dest'[j], destFields[j].type) =
                     [rows.vals[i].time EXCEPT !.zone = "UTC"]
            /\ C21_Untouched]_vars

\* Everything of C21 but the digits of the fractional second after the
\* third: the date, the clock and the milliseconds are the driver's, the
\* zone is UTC, and what the correction must leave alone is left alone.
C21_ToTheMillisecond ==
    [][OracleScan
         => /\ \A i \in InstantColumns : \A j \in TaggedExactly(rows.cols[i]) :
                  InstantOf(dest'[j], destFields[j].type) =
                     [rows.vals[i].time EXCEPT
                        !.zone = "UTC",
                        !.frac = IF @ > 3 THEN 3 ELSE @]
            /\ C21_Untouched]_vars

(***************************************************************************)
(* C22.  Scan and Clear on one SQLScan are mutually exclusive: at most one  *)
(* goroutine is between its Lock and its return, and it is the one that     *)
(* holds the mutex, so the mutex is free again when a call has returned,    *)
(* also with an error; the cache a Scan builds its pointers from is the     *)
(* one it has filled or read; and every call returns what it returns when   *)
(* it runs alone on the SQLScan as it was when the call took the lock.      *)
(***************************************************************************)
\* Goroutine g is between s.Lock() and its return.
Inside(g) ==
    gs[g].pc \in {"Scan:columns", "Scan:pointers", "Scan:rows", "Clear:nil"}

\* The call of Scan that g has returned from, run alone.
Alone(g) == scan(gs[g].s0, u.dbType, gs[g].row, ZeroDest)

C22_MutualExclusion ==
    /\ \A g, h \in Goroutines : Inside(g) /\ Inside(h) => g = h
    /\ \A g \in Goroutines : Inside(g) <=> mu = g
    /\ \A g \in Goroutines :
          /\ gs[g].pc = "Scan:pointers" => s.columnNames = gs[g].names
          /\ gs[g].pc = "Scan:rows"
                => gs[g].ptrs = gs[g].names /\ s.columnNames = gs[g].names
          /\ (gs[g].pc = "idle" /\ gs[g].ret.call = "Scan")
                => /\ gs[g].ret.err = Alone(g).err
                   /\ gs[g].ret.dest = Alone(g).dest
                   /\ gs[g].s1 = Alone(g).s
          /\ (gs[g].pc = "idle" /\ gs[g].ret.call = "Clear")
                => gs[g].s1 = NewScan

\* Goroutine 1 has filled the cache and is about to build its pointers
\* while goroutine 2 waits in Clear for the mutex.
C22_Witness ==
    /\ mu = 1
    /\ gs[1].pc = "Scan:pointers"
    /\ Len(gs[1].names) > 0
    /\ gs[2].pc = "Clear:Lock"

\* A Scan on a closed cursor has returned the error of rows.Columns() and
\* the next goroutine has taken the mutex.
C22_ErrorReturnWitness ==
    /\ gs[1].pc = "idle"
    /\ gs[1].ret = [call |-> "Scan", err |-> "closed", dest |-> ZeroDest]
    /\ mu = 2

(***************************************************************************)
(* C23.  As claimed: on the fetch-paging dialects, for every template with  *)
(* both a LIMIT ? and an OFFSET ? marker, in either order and either case,  *)
(* the pagination rewriter returns normally and the rewritten text has as   *)
(* many placeholders as the template.                                       *)
(***************************************************************************)
\* Where the rewriter finds the markers: the first in capitals, or else the
\* first in small letters (-1: none).
LimitAt(t) ==
    IF Index(t, sLIMITq) > -1 THEN Index(t, sLIMITq) ELSE Index(t, sLimitq)

OffsetAt(t) ==
    IF Index(t, sOFFSETq) > -1 THEN Index(t, sOFFSETq) ELSE Index(t, sOffsetq)

\* PQuery was called on a fetch-paging dialect with a template that holds
\* both markers.
BothMarkers ==
    /\ op = "PQuery"
    /\ u.dbType \in FetchPaging
    /\ LimitAt(tmpl) > -1
    /\ OffsetAt(tmpl) > -1

C23_AsClaimed ==
    BothMarkers
        => /\ ~pq.panicked
           /\ Markers(pq.Query, u.prefix) = Count(tmpl, "?")

\* What holds of the code: the call returns, with as many placeholders as
\* the template has, exactly when the LIMIT ? marker it finds ends before
\* the OFFSET ? marker it finds begins; otherwise it ends in a slice-bounds
\* panic.
C23_LimitBeforeOffset ==
    BothMarkers
        => IF LimitAt(tmpl) + Len(sLIMITq) <= OffsetAt(tmpl)
           THEN /\ ~pq.panicked
                /\ Markers(pq.Query, u.prefix) = Count(tmpl, "?")
           ELSE pq.panicked

(***************************************************************************)
(* C24.  As claimed: minus2except and except2minus never index outside the  *)
(* query text: for every template, also one that begins or ends with the    *)
(* searched keyword, the call returns normally, and a template in which no  *)
(* occurrence of the keyword has white space on both sides comes back       *)
(* unchanged.                                                               *)
(***************************************************************************)
\* The places (from 1) where a keyword the dialect searches stands in t.
Occurrences(dbType, t) ==
    {<<i, k[1]>> : i \in 1..Len(t), k \in KeywordsOf(dbType)}
        \cap {o \in (1..Len(t)) \X {sMINUS, sMinus, sEXCEPT, sExcept} :
                HasAt(t, o[1], o[2])}

\* The occurrence o ends the text, or begins it and is followed by white
\* space: the character after it, or the one before it, does not exist.
AtTheEdge(t, o) ==
    \/ o[1] + Len(o[2]) - 1 = Len(t)
    \/ o[1] = 1 /\ IsWhiteSpace(t[1 + Len(o[2])])

C24_AsClaimed ==
    op = "PQuery"
        => /\ ~pq.panicked
           /\ (\A o \in Occurrences(u.dbType, tmpl) :
                  ~Delimited(tmpl, o[1], o[2]))
                 => pq.Query = tmpl

\* What holds of the code: the call ends in a slice-bounds panic exactly
\* when an occurrence of a searched keyword is at the edge of the text.
C24_PanicsAtTheEdge ==
    op = "PQuery"
        => (pq.panicked
              <=> \E o \in Occurrences(u.dbType, tmpl) : AtTheEdge(tmpl, o))

(***************************************************************************)
(* C25.  As claimed: SetArg(i, val) with i >= 0 returns normally on every   *)
(* argument list (nil, empty, shorter than, as long as or longer than i),   *)
(* and then len(Args) >= i + 1, Args[i] = val and every argument that was   *)
(* there at another index is where and what it was; with i < 0 it panics    *)
(* with 'invalid index argument' and leaves Args unchanged.                 *)
(***************************************************************************)
\* This step is a call of SetArg.
SetArgStep == sa'.n = sa.n + 1

\* What a call that has returned leaves: val at index i, the other
\* arguments kept.
SetArgDone ==
    /\ sa'.result = "returned"
    /\ ~pq'.panicked
    /\ Len(pq'.Args) >= sa'.i + 1
    /\ pq'.Args[sa'.i + 1] = sa'.val
    /\ \A k \in 1..Len(pq.Args) :
          k # sa'.i + 1 => pq'.Args[k] = pq.Args[k]

\* The call has panicked on its index test, before any change.
SetArgRefused ==
    /\ sa'.result = "invalid index argument"
    /\ pq'.panicked
    /\ pq'.Args = pq.Args

C25_AsClaimed ==
    [][SetArgStep
         => IF sa'.i >= 0 THEN SetArgDone ELSE SetArgRefused]_vars

\* What holds of the code: the call returns, with the result claimed, when
\* i is an index of Args or when n < i < 2n, n = len(Args) (Args is then
\* grown by n nils); for any other i >= 0 (i = n > 0, i > 0 on a nil or
\* empty list, i >= 2n) the assignment panics with index out of range.  A
\* negative i is refused as claimed.
C25_WithinTwiceTheLength ==
    [][SetArgStep
         => LET n == Len(pq.Args)
                i == sa'.i
            IN  CASE i < 0 -> SetArgRefused
                  [] i < n \/ (n < i /\ i < 2 * n) \/ (n = 0 /\ i = 0) ->
                       SetArgDone
                  [] OTHER -> /\ sa'.result = "index out of range"
                              /\ pq'.panicked]_vars

(***************************************************************************)
(* C26.  As claimed: under any interleaving of Write calls and a Close      *)
(* call, every Write that has returned (len(p), nil) has its item taken by  *)
(* a worker and handed to Exec, exactly once; the WaitGroup counter is      *)
(* never negative, and it is zero whenever nothing is left in the queue or  *)
(* in the hands of a writer or a worker.                                    *)
(***************************************************************************)
\* Nothing is under way: no item in the queue, no writer inside Write and
\* no worker with an item.
Drained ==
    /\ queue = <<>>
    /\ \A w \in Writers : writers[w].pc \in {"idle", "returned"}
    /\ \A k \in Workers : workers[k].pc \in {"none", "recv", "exited"}

\* The counter is the number of accepted messages not yet done with, and
\* no message is handed to Exec twice or without its Write.
Counted ==
    /\ wg >= 0
    /\ Drained => wg = 0
    /\ \A w \in Writers :
          /\ execd[w] <= 1
          /\ execd[w] = 1 => writers[w].ret = "ok"

C26_AsClaimed ==
    /\ []Counted
    /\ \A w \in Writers : (writers[w].ret = "ok") ~> (execd[w] = 1)

\* What holds of the code: the counting, in every interleaving.
C26_Counted == []Counted

\* The cause, as a state that is reached: Write has returned (len(p), nil),
\* every worker has exited and the item is still in the queue, with the
\* WaitGroup counter above zero for good.
C26_Stranded ==
    \E w \in Writers :
       /\ writers[w].ret = "ok"
       /\ \A k \in Workers : workers[k].pc = "exited"
       /\ \E i \in 1..Len(queue) : queue[i] = LogItem(w)
       /\ wg > 0

(***************************************************************************)
(* C27.  AuditLog shutdown: SetLogger starts exactly four workers; one      *)
(* call of Close enqueues exactly four exit items, every worker consumes    *)
(* exactly one of them and all four workers terminate in the end; every     *)
(* item that was enqueued before Close was called has been handed to Exec   *)
(* when the workers have exited; a second, later call of Close enqueues     *)
(* nothing.                                                                 *)
(***************************************************************************)
Exited == {k \in Workers : workers[k].pc = "exited"}

\* The exit items in the queue.
ExitsQueued == Cardinality({i \in 1..Len(queue) : queue[i] = ExitItem})

\* The exit items are those Close has sent, each consumed by one worker
\* that exited on it; once Close has returned there are four, and once the
\* four workers have exited none is left and the earlier items are done.
ShutdownCounts ==
    /\ main.sent <= 4
    /\ Cardinality(Exited) + ExitsQueued = main.sent
    /\ \A k \in Exited : workers[k].li = ExitItem
    /\ main.pc = "closed" => main.sent = 4
    /\ Cardinality(Exited) = 4
          => /\ ExitsQueued = 0
             /\ \A w \in Writers : writers[w].early => execd[w] = 1

\* SetLogger starts four workers, all at the top of their loop.
StartsFour ==
    (main.pc = "new" /\ main'.pc = "SetLogger")
        => /\ Cardinality(DOMAIN workers') = 4
           /\ \A k \in DOMAIN workers' : workers'[k].pc = "recv"

\* A call of Close after the first one returns without a send.
SecondCloseSendsNothing ==
    (main.closes >= 1 /\ main'.closes = main.closes + 1)
        => /\ queue' = queue
           /\ main'.sent = main.sent
           /\ main'.pc = "closed"

C27_Shutdown ==
    /\ []ShutdownCounts
    /\ [][StartsFour /\ SecondCloseSendsNothing]_vars
    /\ (main.pc = "Close:send") ~> (Exited = Workers)

\* Close was called twice, the four workers have exited, and the message
\* that was enqueued before the first call was handed to Exec.
C27_Witness ==
    /\ main.closes = 2
    /\ main.sent = 4
    /\ Exited = Workers
    /\ \E w \in Writers : writers[w].early /\ execd[w] = 1

(***************************************************************************)
(* C28.  As claimed: once Close has returned, every later Write, also one   *)
(* through the writer value that io.MultiWriter was given before Close,     *)
(* returns (0, error 'exit signal already received'), enqueues no item and  *)
(* does not increment the WaitGroup.                                        *)
(***************************************************************************)
\* The call of Write by w was refused and has left nothing behind.
Rejected(w) ==
    /\ writers[w].pc = "returned"
    /\ writers[w].ret = "exit signal already received"
    /\ \A i \in 1..Len(queue) : queue[i] # LogItem(w)
    /\ \A k \in Workers : workers[k].li # LogItem(w)
    /\ execd[w] = 0

\* The WaitGroup counter counts only the Writes that were not refused.
NoAddWhenRejected ==
    wg <= Cardinality({w \in Writers : writers[w].pc # "idle" /\ ~Rejected(w)})

C28_AsClaimed ==
    /\ \A w \in Writers : writers[w].late => Rejected(w)
    /\ NoAddWhenRejected

\* What holds of the code: a Write on the AuditLog itself (audit.Write)
\* that begins after Close has returned is rejected as claimed; through the
\* io.MultiWriter value a Write is accepted whenever it is called.
C28_OnTheAuditLogItself ==
    /\ \A w \in Writers :
          /\ (writers[w].late /\ writers[w].via = "audit") => Rejected(w)
          /\ (writers[w].pc # "idle" /\ writers[w].via = "mw") => ~Rejected(w)
    /\ NoAddWhenRejected

(***************************************************************************)
(* C29.  The entry cursor of a ZipReader stays within                       *)
(* -1 <= currentEntry <= nrEntries - 1 whatever is called.  From a new      *)
(* reader or after ResetEntryIndex, the calls of GetNextEntry return the    *)
(* names in archive order, each entry once, and after the last one every    *)
(* call returns ErrEOF and leaves the cursor where it is.  HasNextEntry     *)
(* returns true exactly when the next GetNextEntry would succeed and does   *)
(* not move the cursor.  ReadCurrentEntry before the first GetNextEntry     *)
(* returns ErrinvalidEntry.                                                 *)
(***************************************************************************)
\* The step is a call of method o.
ZipStep(o) == zcall'.n = zcall.n + 1 /\ zcall'.op = o

CursorInRange ==
    /\ 0 - 1 <= z.currentEntry
    /\ z.currentEntry <= z.nrEntries - 1

\* The names returned since the reader was new or reset are those of the
\* first files of the archive, in its order, one per file.
InArchiveOrder ==
    /\ Len(got) <= Len(z.r)
    /\ \A i \in 1..Len(got) : got[i] = z.r[i].Name

\* A call of GetNextEntry returns the name of the first file not yet
\* returned, and ErrEOF with the cursor unmoved when all were returned.
NextThenEOF ==
    ZipStep("GetNextEntry") =>
        IF Len(got) < Len(z.r)
        THEN /\ zcall'.err = "nil"
             /\ zcall'.ret = z.r[Len(got) + 1].Name
             /\ got' = Append(got, zcall'.ret)
        ELSE /\ zcall'.err = ErrEOF
             /\ zcall'.ret = ""
             /\ z' = z
             /\ got' = got

\* HasNextEntry tells whether a file is left to return, moves nothing, and
\* the GetNextEntry called right after it succeeds exactly when it said so.
HasNextForetells ==
    /\ ZipStep("HasNextEntry") =>
          /\ zcall'.ret = (Len(got) < Len(z.r))
          /\ z' = z
          /\ got' = got
    /\ (zcall.op = "HasNextEntry" /\ ZipStep("GetNextEntry")) =>
          (zcall.ret = (zcall'.err = "nil"))

\* ReadCurrentEntry on a reader that is new or was reset, before any
\* GetNextEntry, returns ErrinvalidEntry and writes nothing.
ReadBeforeFirst ==
    (ZipStep("ReadCurrentEntry") /\ got = <<>>) =>
        /\ zcall'.err = ErrinvalidEntry
        /\ zcall'.dest = <<>>
        /\ z' = z

C29_Cursor ==
    /\ [](CursorInRange /\ InArchiveOrder)
    /\ [][NextThenEOF /\ HasNextForetells /\ ReadBeforeFirst]_vars

\* Every entry of an archive of two or more was returned, and the call of
\* GetNextEntry after the last one got ErrEOF.
C29_Witness ==
    /\ Len(z.r) >= 2
    /\ zcall.op = "GetNextEntry"
    /\ zcall.err = ErrEOF
    /\ zcall.before = z.nrEntries - 1
    /\ Len(got) = Len(z.r)

(***************************************************************************)
(* C30.  As claimed: GetEntry(name, dest) returns nil when the archive has  *)
(* an entry of that name and its content was copied to dest without a read  *)
(* error; it returns ErrEntryNotFound only when no entry has that name; it  *)
(* never moves the entry cursor.                                            *)
(***************************************************************************)
\* The files of the archive that have the name.
Named(name) == {i \in 1..Len(z.r) : z.r[i].Name = name}

\* The archive has the name, and each file of that name is read to its end.
CopiedWhole(name) ==
    /\ Named(name) # {}
    /\ \A i \in Named(name) : z.r[i].fault = "none"

C30_AsClaimed ==
    zcall.op = "GetEntry" =>
        /\ CopiedWhole(zcall.name) => zcall.err = "nil"
        /\ zcall.err = ErrEntryNotFound => Named(zcall.name) = {}
        /\ z.currentEntry = zcall.before

\* What holds of the code: GetEntry never returns nil.  It returns the read
\* error of the first file of that name that cannot be read, and
\* ErrEntryNotFound otherwise, also after it has copied every file of that
\* name to dest; it does not move the cursor.
C30_NeverNil ==
    zcall.op = "GetEntry" =>
        /\ zcall.err # "nil"
        /\ zcall.err = ErrEntryNotFound <=>
              \A i \in Named(zcall.name) : z.r[i].fault = "none"
        /\ CopiedWhole(zcall.name) => zcall.dest # <<>>
        /\ z.currentEntry = zcall.before

====
